---- MODULE Spec2Model ----
(***************************************************************************)
(* A model of awscmds: the command runner (runcp), the build retry loop    *)
(* (docker_build), the registry push (docker_push_to_ecr), the function    *)
(* update protocol (lambda_function_update) and the LambdaDockerPipeline   *)
(* stages, run by one sequential client against a remote registry and two  *)
(* remote functions; and runcp, _get_digest and EcrRepoUri applied on      *)
(* their own to bounded sets of arguments.                                 *)
(*                                                                         *)
(* Texts (captured output, registry references) are sequences of           *)
(* one-character strings, so that substring tests, regular expressions and *)
(* concatenations are computed as the code computes them.  An optional     *)
(* value is <<>> (Python's None) or <<v>>.                                  *)
(***************************************************************************)
EXTENDS Integers, Sequences, FiniteSets, TLC

VARIABLES
    op,        \* the operation the client is running, with its arguments
    plan,      \* the steps of the operation, in the order the code runs them
    ip,        \* index in plan of the step being run
    pc,        \* position inside the step
    log,       \* the external commands and hooks of this operation, in order
    result,    \* how the operation ended: still running, return or raise
    cp,        \* the CompletedProcess last returned by an unchecked runcp
    elapsed,   \* docker_build: time.monotonic() - start_time, in seconds
    polls,     \* status checks made by the running `wait function-updated`
    status,    \* remote: LastUpdateStatus of each function
    deployed,  \* remote: the image each function runs
    pending,   \* remote: the image of the update being applied
    calls,     \* operations started so far
    faults,    \* whether commands and the remote may fail on their own
    prev,      \* the operation run before this one, and how it ended
    input,     \* the arguments of a function applied on its own
    fs         \* the files: the text of each path, None when absent

vars == <<op, plan, ip, pc, log, result, cp, elapsed, polls,
          status, deployed, pending, calls, faults, prev, input, fs>>

(* What no step of an operation changes. *)
Frame == <<faults, prev, input, fs>>

----------------------------------------------------------------------------
(* Bounds of the model. *)

MaxCalls == 2       \* operations the client runs one after the other
MaxDur == 2         \* longest build invocation, in seconds
MaxTimeout == 3     \* largest tmr_timeout tried
MaxEofReads == 1    \* empty reads runcp can make between EOF and process exit
MaxLines == 2       \* most lines a process given to runcp on its own writes

(* `aws lambda wait function-updated` gives up after 60 failed checks. *)
WaitMaxAttempts == 60

----------------------------------------------------------------------------
(* Optional values and texts. *)

None == <<>>
Some(v) == <<v>>
IsNone(o) == o = <<>>
Get(o) == o[1]

Contains(text, pat) ==
    \E i \in 1..(Len(text) - Len(pat) + 1) :
        SubSeq(text, i, i + Len(pat) - 1) = pat

RECURSIVE Join(_, _)
(* sep.join(items) *)
Join(sep, items) ==
    IF Len(items) = 0 THEN <<>>
    ELSE IF Len(items) = 1 THEN items[1]
    ELSE items[1] \o sep \o Join(sep, Tail(items))

RECURSIVE Split(_, _)
(* text.split(c) for a one-character separator *)
Split(text, c) ==
    IF \A i \in 1..Len(text) : text[i] # c THEN <<text>>
    ELSE LET i == CHOOSE k \in 1..Len(text) :
                      text[k] = c /\ \A j \in 1..(k - 1) : text[j] # c
         IN  <<SubSeq(text, 1, i - 1)>>
                 \o Split(SubSeq(text, i + 1, Len(text)), c)

Digits == {"0", "1", "2", "3", "4", "5", "6", "7", "8", "9"}
LowerCase == {"a", "b", "c", "d", "e", "f", "g", "h", "i", "j", "k", "l", "m",
              "n", "o", "p", "q", "r", "s", "t", "u", "v", "w", "x", "y", "z"}

----------------------------------------------------------------------------
(* Literals of the program. *)

tmr ==
    <<"t","o","o","m","a","n","y","r","e","q","u","e","s","t","s",":"," ",
      "R","a","t","e"," ","e","x","c","e","e","d","e","d">>

DigestPrefix ==
    <<"d","i","g","e","s","t",":"," ","s","h","a","2","5","6",":">>

(* Lines an external tool can write. *)
tmrWrongCase ==
    <<"T","o","o","m","a","n","y","r","e","q","u","e","s","t","s",":"," ",
      "r","a","t","e"," ","e","x","c","e","e","d","e","d","\n">>
LineTmr == tmr \o <<"\n">>
LineStep == <<"S","t","e","p"," ","1","/","8","\n">>
LinePushed == <<"9","5","e","3",":"," ","P","u","s","h","e","d","\n">>
LineDigest ==
    <<"l","a","t","e","s","t",":"," ","d","i","g","e","s","t",":"," ","s",
      "h","a","2","5","6",":","d","4","c","7"," ","s","i","z","e",":"," ",
      "2","8","4","1","\n">>
LineDigestB ==
    <<"d","i","g","e","s","t",":"," ","s","h","a","2","5","6",":","0","b",
      "\n">>
LineDigestUpper ==
    <<"D","i","g","e","s","t",":"," ","s","h","a","2","5","6",":","d","4",
      "\n">>
LineNoHex == <<"d","i","g","e","s","t",":"," ","s","h","a","2","5","6",":",
      " ","\n">>
LineDenied == <<"d","e","n","i","e","d","\n">>
LineDigestEnd == <<"d","i","g","e","s","t",":"," ","s","h","a","2","5","6",
      ":","9","z">>
LineDigestCut == <<"d","i","g","e","s","t",":"," ","s","h","a","2","5","6",
      ":","a","b","1","F","c","d","\n">>
Token == <<"t","0","k","3","n","\n">>
LineWaiter == <<"W","a","i","t","e","r"," ","f","a","i","l","e","d","\n">>

----------------------------------------------------------------------------
(* Results and errors. *)

Exc(kind) ==
    [exc |-> kind, returncode |-> 0, cmd |-> "-",
     output |-> None, stderr |-> None]

NoError == Exc("-")

(* CalledProcessError(returncode, cmd, output=None, stderr=None) *)
CalledProcessError(returncode, cmd, output, stderr) ==
    [exc |-> "CalledProcessError", returncode |-> returncode, cmd |-> cmd,
     output |-> output, stderr |-> stderr]

(* CompletedProcess(args, returncode, stdout=None, stderr=None) *)
CompletedProcess(args, returncode, stdout, stderr) ==
    [args |-> args, returncode |-> returncode,
     stdout |-> stdout, stderr |-> stderr]

NoCp == CompletedProcess("-", 0, None, None)

----------------------------------------------------------------------------
(* The command runner.  A process is [cmd, lines, exit, eofreads]: the     *)
(* lines it writes on its merged stdout/stderr, its exit code, and how     *)
(* many times readline() returns '' while poll() still returns None.       *)

Proc(cmd, lines, exit, eofreads) ==
    [cmd |-> cmd, lines |-> lines, exit |-> exit, eofreads |-> eofreads]

(* What runcp appends to stdout_lines: every line, every empty read. *)
StdoutLines(proc) ==
    proc.lines \o [i \in 1..(proc.eofreads + 1) |-> <<>>]

(* The lines runcp prints: the reads with len(output) > 0. *)
Echoed(proc) == SelectSeq(StdoutLines(proc), LAMBDA l : Len(l) > 0)

StdoutText(proc) == Join(<<"\n">>, StdoutLines(proc))

(* A runcp that returns the result whatever the exit code. *)
Mut_RuncpNeverRaises(proc, check) ==
    [raised |-> FALSE,
     error |-> NoError,
     cp |-> CompletedProcess(proc.cmd, proc.exit,
                             Some(StdoutText(proc)), None)]

runcp(proc, check) ==
    IF check /\ proc.exit # 0
    THEN [raised |-> TRUE,
          error |-> CalledProcessError(proc.exit, proc.cmd,
                                       Some(StdoutText(proc)), None),
          cp |-> NoCp]
    ELSE [raised |-> FALSE,
          error |-> NoError,
          cp |-> CompletedProcess(proc.cmd, proc.exit,
                                  Some(StdoutText(proc)), None)]

check_call_rt(proc) == runcp(proc, TRUE)

(* subprocess.check_call: the output is not captured. *)
check_call(proc) ==
    IF proc.exit # 0
    THEN [raised |-> TRUE,
          error |-> CalledProcessError(proc.exit, proc.cmd, None, None)]
    ELSE [raised |-> FALSE, error |-> NoError]

----------------------------------------------------------------------------
(* The failure classifier: "True", "False", or the TypeError that          *)
(* `tmr in cp.stderr` raises when cp.stderr is None.                       *)

_is_docker_build_too_many_requests(c) ==
    IF c.returncode = 0 THEN "False"
    ELSE IF IsNone(c.stderr) THEN "TypeError"
    ELSE IF Contains(Get(c.stderr), tmr) THEN "True"
    ELSE "False"

----------------------------------------------------------------------------
(* re.search(r'digest: (sha256:[0-9a-z]+)', output) *)

DigestChars == Digits \cup LowerCase

DigestMatches(output) ==
    {i \in 1..Len(output) :
        /\ i + Len(DigestPrefix) <= Len(output)
        /\ SubSeq(output, i, i + Len(DigestPrefix) - 1) = DigestPrefix
        /\ output[i + Len(DigestPrefix)] \in DigestChars}

(* The last index of the run of characters of `set` that starts at `from`. *)
RunEnd(text, from, set) ==
    CHOOSE e \in (from - 1)..Len(text) :
        /\ \A j \in from..e : text[j] \in set
        /\ e = Len(text) \/ text[e + 1] \notin set

(* A _get_digest that returns an empty digest when nothing matches. *)
Mut_DigestNeverRaises(output) ==
    [raised |-> FALSE, error |-> NoError,
     value |-> IF DigestMatches(output) = {} THEN <<>>
               ELSE LET i == CHOOSE k \in DigestMatches(output) :
                                 \A j \in DigestMatches(output) : k <= j
                    IN  SubSeq(output, i + 8,
                               RunEnd(output, i + Len(DigestPrefix),
                                      DigestChars))]

(* A _get_digest that returns the last match of the text. *)
Mut_DigestOfLastMatch(output) ==
    IF DigestMatches(output) = {}
    THEN [raised |-> TRUE, error |-> Exc("ValueError"), value |-> <<>>]
    ELSE LET i == CHOOSE k \in DigestMatches(output) :
                      \A j \in DigestMatches(output) : k >= j
             from == i + Len(DigestPrefix)
         IN  [raised |-> FALSE, error |-> NoError,
              value |-> SubSeq(output, i + 8,
                               RunEnd(output, from, DigestChars))]

_get_digest(output) ==
    IF DigestMatches(output) = {}
    THEN [raised |-> TRUE, error |-> Exc("ValueError"), value |-> <<>>]
    ELSE LET i == CHOOSE k \in DigestMatches(output) :
                      \A j \in DigestMatches(output) : k <= j
             from == i + Len(DigestPrefix)
         IN  [raised |-> FALSE, error |-> NoError,
              value |-> SubSeq(output, i + 8,
                               RunEnd(output, from, DigestChars))]

----------------------------------------------------------------------------
(* EcrRepoUri: re.match(r'(.+)/([^@:]+)(?:[@:](.+))?', uri).  The host is  *)
(* greedy: it ends at the last '/' that a name character follows.          *)

TagSep == {"@", ":"}

Chars(text) == {text[i] : i \in 1..Len(text)}

HostEnds(uri) ==
    {i \in 2..(Len(uri) - 1) :
        /\ uri[i] = "/"
        /\ "\n" \notin Chars(SubSeq(uri, 1, i - 1))
        /\ uri[i + 1] \notin TagSep}

(* An EcrRepoUri whose host ends at the first '/' instead of the last. *)
Mut_HostToFirstSlash(uri) ==
    IF HostEnds(uri) = {}
    THEN [raised |-> TRUE, error |-> Exc("ValueError"), uri |-> uri,
          host |-> <<>>, name |-> <<>>, tag |-> None, region |-> <<>>]
    ELSE LET i == CHOOSE k \in HostEnds(uri) : \A j \in HostEnds(uri) : k <= j
             host == SubSeq(uri, 1, i - 1)
             e == RunEnd(uri, i + 1, Chars(uri) \ TagSep)
             name == SubSeq(uri, i + 1, e)
             rest == SubSeq(uri, e + 2, Len(uri))
             g3 == SubSeq(rest, 1, RunEnd(rest, 1, Chars(rest) \ {"\n"}))
             tag == IF Len(g3) > 0 THEN Some(g3) ELSE None
             parts == Split(host, ".")
         IN  IF Len(parts) < 3
             THEN [raised |-> TRUE, error |-> Exc("IndexError"), uri |-> uri,
                   host |-> host, name |-> name, tag |-> tag,
                   region |-> <<>>]
             ELSE [raised |-> FALSE, error |-> NoError, uri |-> uri,
                   host |-> host, name |-> name, tag |-> tag,
                   region |-> parts[Len(parts) - 2]]

EcrRepoUri(uri) ==
    IF HostEnds(uri) = {}
    THEN [raised |-> TRUE, error |-> Exc("ValueError"), uri |-> uri,
          host |-> <<>>, name |-> <<>>, tag |-> None, region |-> <<>>]
    ELSE LET i == CHOOSE k \in HostEnds(uri) : \A j \in HostEnds(uri) : j <= k
             host == SubSeq(uri, 1, i - 1)
             e == RunEnd(uri, i + 1, Chars(uri) \ TagSep)
             name == SubSeq(uri, i + 1, e)
             rest == SubSeq(uri, e + 2, Len(uri))
             g3 == SubSeq(rest, 1, RunEnd(rest, 1, Chars(rest) \ {"\n"}))
             tag == IF Len(g3) > 0 THEN Some(g3) ELSE None
             parts == Split(host, ".")
         IN  IF Len(parts) < 3
             THEN [raised |-> TRUE, error |-> Exc("IndexError"), uri |-> uri,
                   host |-> host, name |-> name, tag |-> tag,
                   region |-> <<>>]
             ELSE [raised |-> FALSE, error |-> NoError, uri |-> uri,
                   host |-> host, name |-> name, tag |-> tag,
                   region |-> parts[Len(parts) - 2]]

(* A uri_without_tag that keeps the tag. *)
Mut_KeepTag(r) == r.uri

uri_without_tag(r) == r.host \o <<"/">> \o r.name

----------------------------------------------------------------------------
(* The inputs tried. *)

Funcs == {"fdev", "fprod"}
Stages == {"local", "docker", "dev", "prod"}
ExitCodes == {0, 1}

(* The pipeline's configuration. *)
ecr_host ==
    <<"1","2","5","3",".","d","k","r",".","e","c","r",".","u","s","-",
      "e","a","s","t","-","1",".","a","m","a","z","o","n","a","w","s",
      ".","c","o","m">>
ecr_repo_name == <<"a","b","c">>
lambda_func_name_dev == "fdev"
lambda_func_name_prod == "fprod"

(* Registry references given to docker_push_to_ecr. *)
UriTagged ==
    <<"1","2","5","3",".","d","k","r",".","e","c","r",".","u","s","-",
      "e","a","s","t","-","1",".","a","m","a","z","o","n","a","w","s",
      ".","c","o","m","/","a","b","c","_","x","1",":","m","y","t","a",
      "g">>
UriBare ==
    <<"1","2","5","3",".","d","k","r",".","e","c","r",".","u","s","-",
      "e","a","s","t","-","1",".","a","m","a","z","o","n","a","w","s",
      ".","c","o","m","/","a","b","c","_","x","1">>
UriDigest ==
    <<"6","1",".","d","k","r",".","e","c","r",".","u","s","-","e","a",
      "s","t","-","1",".","a","m","a","z","o","n","a","w","s",".","c",
      "o","m","/","i","m","a","g","e","n","a","m","e","@","s","h","a",
      "2","5","6",":","d","1","3","b">>
UriSlashTag == <<"h",".","r",".","a",".","c","/","n",":","t","/","x">>
UriPort == <<"h",".","r",".","a",".","c",":","5","0","0","0","/","p","/","n",
      ":","t">>
UriEmptyTag == <<"h",".","r",".","a",".","c","/","n",":">>
UriNoSlash == <<"a","b","c","_","x","1",":","m","y","t","a","g">>
UriShortHost == <<"a",".","b","/","n",":","t">>

PushUris == {UriTagged, UriBare, UriDigest, UriSlashTag, UriPort,
             UriEmptyTag, UriNoSlash, UriShortHost}

(* Images given to lambda_function_update, and the one running at first. *)
Image0 == <<"0">>
ImageA == UriTagged
ImageB == UriDigest
Images == {ImageA, ImageB}

(* What `docker build` and `docker push` can write and exit with. *)
BuildProcs ==
    {Proc("docker build", l, e, k) :
        l \in {<<>>, <<LineStep>>, <<LineStep, LineTmr>>, <<tmrWrongCase>>},
        e \in ExitCodes, k \in 0..MaxEofReads}

(* The builds of the pipeline's build stage, whose output goes to the     *)
(* terminal.                                                               *)
StageBuildProcs ==
    {Proc("docker build", l, e, 0) :
        l \in {<<LineStep>>, <<LineStep, LineTmr>>}, e \in ExitCodes}

PushProcs ==
    {Proc("docker push", l, e, k) :
        l \in {<<LinePushed, LineDigest>>, <<LineDigestB, LineDigest>>,
               <<LinePushed>>, <<LineDigestUpper>>, <<LineNoHex>>,
               <<LineDenied>>},
        e \in ExitCodes, k \in 0..MaxEofReads}

(* A command whose output the model does not read. *)
Quiet(cmd, e) == Proc(cmd, <<>>, e, 0)

----------------------------------------------------------------------------
(* The operations the client can run, and the steps of each. *)

Op(name, command, stage, fn, image, uri, tmr_timeout) ==
    [name |-> name, command |-> command, stage |-> stage, fn |-> fn,
     image |-> image, uri |-> uri, tmr_timeout |-> tmr_timeout]

Idle == Op("idle", "-", "-", "-", <<>>, <<>>, 0)

Ops ==
    {Op("main", "update", s, "-", <<>>, <<>>, 0) : s \in {"dev", "prod"}}
    \cup {Op("main", "build", "-", "-", <<>>, <<>>, 0)}
    \cup {Op("main", "test", s, "-", <<>>, <<>>, 0) : s \in Stages}
    \cup {Op(n, "-", s, "-", <<>>, <<>>, 0) :
            n \in {"push_container", "update_function"}, s \in Stages}
    \cup {Op("lambda_function_update", "-", "-", f, i, <<>>, 0) :
            f \in Funcs, i \in Images}
    \cup {Op("lambda_function_wait_updated", "-", "-", f, <<>>, <<>>, 0) :
            f \in Funcs}
    \cup {Op("docker_push_to_ecr", "-", "-", "-", <<>>, u, 0) :
            u \in PushUris}
    \cup {Op("docker_build", "-", "-", "-", <<>>, <<>>, t) :
            t \in 0..MaxTimeout}

Step(proc, stage) == [proc |-> proc, stage |-> stage]

(* A dev sequence that updates the function before pushing the image. *)
Mut_UpdateBeforePush ==
    <<Step("build_container", "-"), Step("_test_docker", "docker"),
      Step("update_function", "dev"), Step("push_container", "dev"),
      Step("_test_dev", "dev")>>

_build_and_upload_dev ==
    <<Step("build_container", "-"), Step("_test_docker", "docker"),
      Step("push_container", "dev"), Step("update_function", "dev"),
      Step("_test_dev", "dev")>>

(* A main whose build command goes on to push and update dev. *)
Mut_BuildAlsoDeploys(o) ==
    IF o.command = "test" THEN <<Step("_test_dev", "dev")>>
    ELSE _build_and_upload_dev

main(o) ==
    IF o.command = "update"
    THEN IF o.stage = "dev" THEN _build_and_upload_dev
         ELSE _build_and_upload_dev
                  \o <<Step("push_container", "prod"),
                       Step("update_function", "prod"),
                       Step("test_prod", "prod")>>
    ELSE IF o.command = "build"
    THEN <<Step("build_container", "-"), Step("_test_docker", "docker")>>
    ELSE IF o.stage = "dev" THEN <<Step("_test_dev", "dev")>>
    ELSE IF o.stage = "prod" THEN <<Step("_test_prod", "prod")>>
    ELSE IF o.stage = "docker" THEN <<Step("_test_docker", "docker")>>
    ELSE <<Step("_test_local", "local")>>

Plan(o) ==
    IF o.name = "main" THEN main(o) ELSE <<Step(o.name, o.stage)>>

Hooks == {"_test_local", "_test_docker", "_test_dev", "_test_prod",
          "test_prod"}

cur == plan[ip]

(* An ecr_image_uri that takes every stage but prod for dev. *)
Mut_ImageUriDefaultsToDev(stage) ==
    IF stage = "prod"
    THEN Some(ecr_host \o <<"/">> \o ecr_repo_name
                  \o <<":","p","r","o","d">>)
    ELSE Some(ecr_host \o <<"/">> \o ecr_repo_name \o <<":","d","e","v">>)

(* LambdaDockerPipeline.ecr_image_uri and lambda_func_name: a value, or    *)
(* the ValueError raised for a stage that is neither dev nor prod.         *)
ecr_image_uri(stage) ==
    IF stage = "dev"
    THEN Some(ecr_host \o <<"/">> \o ecr_repo_name \o <<":","d","e","v">>)
    ELSE IF stage = "prod"
    THEN Some(ecr_host \o <<"/">> \o ecr_repo_name
                  \o <<":","p","r","o","d">>)
    ELSE None

lambda_func_name(stage) ==
    IF stage = "dev" THEN Some(lambda_func_name_dev)
    ELSE IF stage = "prod" THEN Some(lambda_func_name_prod)
    ELSE None

(* self.aws_region when no region is passed: erc_host.split('.')[-3] *)
aws_region == LET parts == Split(ecr_host, ".") IN parts[Len(parts) - 2]

----------------------------------------------------------------------------
(* The log: one entry per external command, hook call or digest            *)
(* extraction, appended when it is started.  `exit` is the exit code (for  *)
(* a hook or _get_digest: 0 returned, 1 raised), `done` whether it has     *)
(* ended, `before` the LastUpdateStatus of fn when the command was issued  *)
(* (for a wait: when it exited), `waited` whether a wait checked the       *)
(* status more than once.                                                  *)

Entry(cmd, fn, uri, exit, done, before) ==
    [step |-> ip, by |-> cur.proc, stage |-> cur.stage, cmd |-> cmd,
     fn |-> fn, uri |-> uri, exit |-> exit, done |-> done,
     before |-> before, waited |-> FALSE, out |-> <<>>, stdin |-> <<>>]

Running == [kind |-> "running", error |-> NoError, value |-> None]

(* The step returns: the next step starts, or the operation returns. *)
StepReturns(v) ==
    IF ip < Len(plan)
    THEN ip' = ip + 1 /\ pc' = "start" /\ result' = result
    ELSE /\ ip' = ip
         /\ pc' = "done"
         /\ result' = [kind |-> "return", error |-> NoError, value |-> v]

(* The step raises: nothing catches it, the operation ends. *)
StepRaises(e) ==
    /\ ip' = ip
    /\ pc' = "done"
    /\ result' = [kind |-> "raise", error |-> e, value |-> None]

Active(proc, at) == pc = at /\ op.name # "idle" /\ cur.proc = proc

Remote == <<status, deployed, pending>>

----------------------------------------------------------------------------
(* The remote functions. *)

Statuses == {"Successful", "InProgress", "Failed"}

(* What can go wrong on its own: anything, or nothing when the remote   *)
(* and the commands are taken to be reliable.                              *)
Faults == IF faults THEN BOOLEAN ELSE {FALSE}

(* The remote finishes applying an update, or fails to. *)
RemoteFinish ==
    \E f \in Funcs, fails \in Faults :
      LET ok == ~fails IN
        /\ status[f] = "InProgress"
        /\ status' = [status EXCEPT ![f] =
                          IF ok THEN "Successful" ELSE "Failed"]
        /\ deployed' = [deployed EXCEPT ![f] =
                            IF ok THEN pending[f] ELSE deployed[f]]
        /\ UNCHANGED <<Frame, op, plan, ip, pc, log, result, cp, elapsed, polls,
                       pending, calls>>

(* One status check of `aws lambda wait function-updated`: the exit code, *)
(* or Again when the waiter sleeps and checks once more.                   *)
Again == 0 - 1

WaiterCheck(st, n) ==
    IF st = "Successful" THEN 0
    ELSE IF st = "Failed" THEN 255
    ELSE IF n + 1 >= WaitMaxAttempts THEN 255
    ELSE Again

(* The waiter gives up on an update still in progress: a reliable remote *)
(* finishes every update before that.                                      *)
GivesUp(st, n) == st = "InProgress" /\ WaiterCheck(st, n) # Again

(* `aws lambda update-function-code`: refused while an update is in       *)
(* progress for the resource.                                              *)
UpdateAccepted(st) == st # "InProgress"

----------------------------------------------------------------------------
(* The runner a command is run with: check_call_rt, check_call, or runcp  *)
(* unchecked.                                                              *)
RunWith(runner, proc) ==
    IF runner = "check_call_rt" THEN check_call_rt(proc)
    ELSE IF runner = "check_call" THEN check_call(proc)
    ELSE runcp(proc, FALSE)

(* What a failing waiter writes: the code reads none of it, and nothing   *)
(* in it is known to tell one failure from another.                        *)
WaiterLines == {<<>>, <<LineWaiter>>}

(* The wait of the update protocol, one status check at a time.  On exit *)
(* 0 control goes to `next`, or the step returns when next is "return".   *)
(* `broken` is a failure of the command itself (no credentials, no        *)
(* network).                                                               *)

WaitFunctionUpdated(runner, fn, next) ==
    \E broken \in Faults, said \in WaiterLines :
        LET e == IF broken THEN 254 ELSE WaiterCheck(status[fn], polls)
            r == RunWith(runner,
                         Proc("wait function-updated",
                              IF e \in {0, Again} THEN <<>> ELSE said, e, 0))
        IN  /\ faults \/ ~GivesUp(status[fn], polls)
            /\ UNCHANGED <<Frame, op, plan, cp, elapsed, Remote, calls>>
            /\ IF e = Again
               THEN /\ polls' = polls + 1
                    /\ UNCHANGED <<ip, pc, log, result>>
               ELSE /\ polls' = 0
                    /\ log' = Append(log,
                           [Entry("wait function-updated", fn, <<>>, e, TRUE,
                                  status[fn]) EXCEPT !.waited = polls > 0])
                    /\ IF r.raised THEN StepRaises(r.error)
                       ELSE IF next = "return" THEN StepReturns(None)
                       ELSE ip' = ip /\ pc' = next /\ result' = result

(* The update command: accepted, refused, or broken. *)
UpdateFunctionCode(runner, fn, image, next) ==
    \E broken \in Faults :
        LET ok == ~broken /\ UpdateAccepted(status[fn])
            e == IF ok THEN 0 ELSE 254
            r == RunWith(runner, Quiet("update-function-code", e))
        IN  /\ log' = Append(log,
                   Entry("update-function-code", fn, image, e, TRUE,
                         status[fn]))
            /\ status' = [status EXCEPT ![fn] =
                              IF ok THEN "InProgress" ELSE status[fn]]
            /\ pending' = [pending EXCEPT ![fn] =
                               IF ok THEN image ELSE pending[fn]]
            /\ IF r.raised THEN StepRaises(r.error)
               ELSE ip' = ip /\ pc' = next /\ result' = result
            /\ UNCHANGED <<Frame, op, plan, cp, elapsed, polls, deployed, calls>>

(* A lambda_function_wait_updated that runs the waiter unchecked. *)
Mut_WaitUnchecked ==
    /\ Active("lambda_function_wait_updated", "start")
    /\ WaitFunctionUpdated("runcp", op.fn, "return")

(* lambda_function_wait_updated, called on its own *)
lambda_function_wait_updated ==
    /\ Active("lambda_function_wait_updated", "start")
    /\ WaitFunctionUpdated("check_call_rt", op.fn, "return")

(* A lambda_function_update whose first wait is run unchecked: a failed   *)
(* wait does not stop it.                                                  *)
Mut_PreWaitUnchecked ==
    /\ Active("lambda_function_update", "start")
    /\ WaitFunctionUpdated("runcp", op.fn, "update")

(* A lambda_function_update that issues the update without waiting first. *)
Mut_NoPreWait ==
    /\ Active("lambda_function_update", "start")
    /\ pc' = "update"
    /\ UNCHANGED <<Frame, op, plan, ip, log, result, cp, elapsed, polls, Remote,
                   calls>>

(* lambda_function_wait_updated, called first by lambda_function_update *)
lambda_function_wait_updated_before ==
    /\ Active("lambda_function_update", "start")
    /\ WaitFunctionUpdated("check_call_rt", op.fn, "update")

(* lambda_function_update: the update-function-code command *)
lambda_function_update ==
    /\ Active("lambda_function_update", "update")
    /\ UpdateFunctionCode("check_call_rt", op.fn, op.image, "wait")

(* A lambda_function_update that returns without waiting for the update *)
(* it issued.                                                              *)
Mut_NoPostWait ==
    /\ Active("lambda_function_update", "wait")
    /\ StepReturns(None)
    /\ UNCHANGED <<Frame, op, plan, log, cp, elapsed, polls, Remote, calls>>

(* lambda_function_wait_updated, called last by lambda_function_update *)
lambda_function_wait_updated_after ==
    /\ Active("lambda_function_update", "wait")
    /\ WaitFunctionUpdated("check_call_rt", op.fn, "return")

(* LambdaDockerPipeline.update_function: the names, then the first        *)
(* _wait_last_update_status                                                *)
update_function_names ==
    /\ Active("update_function", "start")
    /\ UNCHANGED <<Frame, op, plan, log, cp, elapsed, polls, Remote, calls>>
    /\ IF IsNone(lambda_func_name(cur.stage))
          \/ IsNone(ecr_image_uri(cur.stage))
       THEN StepRaises(Exc("ValueError"))
       ELSE ip' = ip /\ pc' = "prewait" /\ result' = result

_wait_last_update_status_before ==
    /\ Active("update_function", "prewait")
    /\ WaitFunctionUpdated("check_call", Get(lambda_func_name(cur.stage)),
                           "update")

update_function ==
    /\ Active("update_function", "update")
    /\ UpdateFunctionCode("check_call", Get(lambda_func_name(cur.stage)),
                          Get(ecr_image_uri(cur.stage)), "wait")

_wait_last_update_status_after ==
    /\ Active("update_function", "wait")
    /\ WaitFunctionUpdated("check_call", Get(lambda_func_name(cur.stage)),
                           "return")

----------------------------------------------------------------------------
(* docker_push_to_ecr *)

(* EcrRepoUri(repo_uri), then Popen of `aws ecr get-login-password`: the  *)
(* process is started and its exit code is not known yet.                  *)
docker_push_to_ecr_get_password ==
    /\ Active("docker_push_to_ecr", "start")
    /\ UNCHANGED <<Frame, op, plan, cp, elapsed, polls, Remote, calls>>
    /\ LET repo_uri == EcrRepoUri(op.uri)
       IN  IF repo_uri.raised
           THEN log' = log /\ StepRaises(repo_uri.error)
           ELSE /\ log' = Append(log,
                       Entry("get-login-password", "-", repo_uri.region,
                             0, FALSE, "-"))
                /\ ip' = ip /\ pc' = "login" /\ result' = result

(* What `aws ecr get-login-password` writes to its stdout, the pipe: the *)
(* token when it succeeds.                                                 *)
PasswordOut(g) == IF g = 0 THEN Token ELSE <<>>

(* A docker login given the token as an argument, --password <token>. *)
Mut_PasswordInArgv ==
    /\ Active("docker_push_to_ecr", "login")
    /\ UNCHANGED <<Frame, op, plan, cp, elapsed, polls, Remote, calls>>
    /\ \E g \in ExitCodes, e \in ExitCodes :
           LET repo_uri == EcrRepoUri(op.uri)
               r == check_call_rt(Quiet("docker login", e))
               n == Len(log)
           IN  /\ log' = Append([log EXCEPT ![n].exit = g, ![n].done = TRUE,
                                            ![n].out = PasswordOut(g)],
                                Entry("docker login", "-",
                                      PasswordOut(g) \o repo_uri.host,
                                      e, TRUE, "-"))
               /\ IF r.raised THEN StepRaises(r.error)
                  ELSE ip' = ip /\ pc' = "tag" /\ result' = result

(* check_call_rt(docker login) reading the pipe; leaving the `with` block *)
(* waits for get-login-password and drops its exit code.                   *)
docker_push_to_ecr_login ==
    /\ Active("docker_push_to_ecr", "login")
    /\ UNCHANGED <<Frame, op, plan, cp, elapsed, polls, Remote, calls>>
    /\ \E g \in ExitCodes, e \in ExitCodes :
           LET repo_uri == EcrRepoUri(op.uri)
               r == check_call_rt(Quiet("docker login", e))
               n == Len(log)
           IN  /\ log' = Append([log EXCEPT ![n].exit = g, ![n].done = TRUE,
                                            ![n].out = PasswordOut(g)],
                                [Entry("docker login", "-", repo_uri.host,
                                       e, TRUE, "-")
                                     EXCEPT !.stdin = PasswordOut(g)])
               /\ IF r.raised THEN StepRaises(r.error)
                  ELSE ip' = ip /\ pc' = "tag" /\ result' = result

docker_push_to_ecr_tag ==
    /\ Active("docker_push_to_ecr", "tag")
    /\ UNCHANGED <<Frame, op, plan, cp, elapsed, polls, Remote, calls>>
    /\ \E e \in ExitCodes :
           LET repo_uri == EcrRepoUri(op.uri)
               r == check_call_rt(Quiet("docker tag", e))
           IN  /\ log' = Append(log, Entry("docker tag", "-", repo_uri.uri,
                                           e, TRUE, "-"))
               /\ IF r.raised THEN StepRaises(r.error)
                  ELSE ip' = ip /\ pc' = "push" /\ result' = result

(* The error raised for a push that exits non-zero. *)
PushError(c) == CalledProcessError(c.returncode, c.args, None, None)

(* runcp(docker push), the check of its exit code, _get_digest, return *)
docker_push_to_ecr_push ==
    /\ Active("docker_push_to_ecr", "push")
    /\ UNCHANGED <<Frame, op, plan, elapsed, polls, Remote, calls>>
    /\ \E proc \in PushProcs :
           LET repo_uri == EcrRepoUri(op.uri)
               c == runcp(proc, FALSE).cp
               push == Entry("docker push", "-", repo_uri.uri,
                             c.returncode, TRUE, "-")
               digest == _get_digest(Get(c.stdout))
           IN  /\ cp' = c
               /\ IF c.returncode # 0
                  THEN log' = Append(log, push) /\ StepRaises(PushError(c))
                  ELSE /\ log' = log \o <<push,
                              Entry("_get_digest", "-", digest.value,
                                    IF digest.raised THEN 1 ELSE 0, TRUE,
                                    "-")>>
                       /\ IF digest.raised THEN StepRaises(digest.error)
                          ELSE StepReturns(Some(uri_without_tag(repo_uri)
                                       \o <<"@">> \o digest.value))

----------------------------------------------------------------------------
(* LambdaDockerPipeline.push_container *)

push_container_get_password ==
    /\ Active("push_container", "start")
    /\ UNCHANGED <<Frame, op, plan, cp, elapsed, polls, Remote, calls>>
    /\ IF IsNone(ecr_image_uri(cur.stage))
       THEN log' = log /\ StepRaises(Exc("ValueError"))
       ELSE /\ log' = Append(log,
                   Entry("get-login-password", "-", aws_region, 0, FALSE,
                         "-"))
            /\ ip' = ip /\ pc' = "login" /\ result' = result

push_container_login ==
    /\ Active("push_container", "login")
    /\ UNCHANGED <<Frame, op, plan, cp, elapsed, polls, Remote, calls>>
    /\ \E g \in ExitCodes, e \in ExitCodes :
           LET r == check_call(Quiet("docker login", e))
               n == Len(log)
           IN  /\ log' = Append([log EXCEPT ![n].exit = g, ![n].done = TRUE,
                                            ![n].out = PasswordOut(g)],
                                [Entry("docker login", "-", ecr_host, e,
                                       TRUE, "-")
                                     EXCEPT !.stdin = PasswordOut(g)])
               /\ IF r.raised THEN StepRaises(r.error)
                  ELSE ip' = ip /\ pc' = "tag" /\ result' = result

push_container_tag ==
    /\ Active("push_container", "tag")
    /\ UNCHANGED <<Frame, op, plan, cp, elapsed, polls, Remote, calls>>
    /\ \E e \in ExitCodes :
           LET r == check_call(Quiet("docker tag", e))
           IN  /\ log' = Append(log,
                       Entry("docker tag", "-", Get(ecr_image_uri(cur.stage)),
                             e, TRUE, "-"))
               /\ IF r.raised THEN StepRaises(r.error)
                  ELSE ip' = ip /\ pc' = "push" /\ result' = result

push_container_push ==
    /\ Active("push_container", "push")
    /\ UNCHANGED <<Frame, op, plan, cp, elapsed, polls, Remote, calls>>
    /\ \E e \in ExitCodes :
           LET r == check_call(Quiet("docker push", e))
           IN  /\ log' = Append(log,
                       Entry("docker push", "-",
                             Get(ecr_image_uri(cur.stage)), e, TRUE, "-"))
               /\ IF r.raised THEN StepRaises(r.error)
                  ELSE StepReturns(None)

----------------------------------------------------------------------------
(* A docker_build that takes every failed build for a rate-limited one   *)
(* and retries without looking at the time.                               *)
Mut_RetriesPastDeadline ==
    /\ Active("docker_build", "start")
    /\ UNCHANGED <<Frame, op, plan, polls, Remote, calls>>
    /\ \E proc \in BuildProcs, d \in 0..MaxDur :
           LET c == runcp(proc, FALSE).cp
               now == elapsed + d
           IN  /\ cp' = c
               /\ log' = Append(log, Entry("docker build", "-", <<>>,
                                           c.returncode, TRUE, "-"))
               /\ IF c.returncode = 0
                  THEN elapsed' = now /\ StepReturns(None)
                  ELSE /\ elapsed' = now + 1
                       /\ UNCHANGED <<ip, pc, result>>

(* docker_build: one turn of its loop.  d is the time the build took. *)

docker_build ==
    /\ Active("docker_build", "start")
    /\ UNCHANGED <<Frame, op, plan, polls, Remote, calls>>
    /\ \E proc \in BuildProcs, d \in 0..MaxDur :
           LET c == runcp(proc, FALSE).cp
               now == elapsed + d
               retry == _is_docker_build_too_many_requests(c)
           IN  /\ cp' = c
               /\ log' = Append(log, Entry("docker build", "-", <<>>,
                                           c.returncode, TRUE, "-"))
               /\ IF c.returncode = 0
                  THEN elapsed' = now /\ StepReturns(None)
                  ELSE IF retry = "TypeError"
                  THEN elapsed' = now /\ StepRaises(Exc("TypeError"))
                  ELSE IF retry = "True" /\ now < op.tmr_timeout - 1
                  THEN /\ elapsed' = now + 1
                       /\ UNCHANGED <<ip, pc, result>>
                  ELSE /\ elapsed' = now
                       /\ StepRaises(CalledProcessError(c.returncode, c.args,
                                                        c.stdout, c.stderr))

----------------------------------------------------------------------------
(* LambdaDockerPipeline.build_container and the test hooks *)

build_container ==
    /\ Active("build_container", "start")
    /\ UNCHANGED <<Frame, op, plan, cp, elapsed, polls, Remote, calls>>
    /\ \E proc \in StageBuildProcs :
           LET r == check_call(proc)
           IN  /\ log' = Append(log,
                       [Entry("docker build", "-", <<>>, proc.exit, TRUE,
                              "-") EXCEPT !.out = Join(<<>>, proc.lines)])
               /\ IF r.raised THEN StepRaises(r.error)
                  ELSE StepReturns(None)

(* _test_local, _test_docker, _test_dev, _test_prod and test_prod: the    *)
(* hook of the embedding application returns or raises.                    *)
TestHook ==
    /\ pc = "start" /\ op.name # "idle" /\ cur.proc \in Hooks
    /\ UNCHANGED <<Frame, op, plan, cp, elapsed, polls, Remote, calls>>
    /\ \E raises \in BOOLEAN :
           /\ log' = Append(log, Entry(cur.proc, "-", <<>>,
                                       IF raises THEN 1 ELSE 0, TRUE, "-"))
           /\ IF raises THEN StepRaises(Exc("Exception"))
              ELSE StepReturns(None)

----------------------------------------------------------------------------
(* The client starts its next operation, one of `ops`. *)

Start(ops) ==
    /\ pc \in {"idle", "done"}
    /\ calls < MaxCalls
    /\ \E o \in ops :
           /\ op' = o
           /\ plan' = Plan(o)
    /\ ip' = 1
    /\ pc' = "start"
    /\ log' = <<>>
    /\ result' = Running
    /\ cp' = NoCp
    /\ elapsed' = 0
    /\ polls' = 0
    /\ calls' = calls + 1
    /\ UNCHANGED <<Remote, faults, input, fs>>

CallOf(ops) == Start(ops) /\ UNCHANGED prev

(* The same, remembering the operation that ran before and how it ended: *)
(* cause is the status the remote showed to its last command.             *)
CallAfter(ops) ==
    /\ Start(ops)
    /\ prev' = [op |-> op, result |-> result,
                cause |-> IF log = <<>> THEN ""
                          ELSE log[Len(log)].before]

OpsNamed(names) == {o \in Ops : o.name \in names}

CallUpdate == CallOf(OpsNamed({"lambda_function_update", "update_function"}))
CallPipeline == CallOf(OpsNamed({"main", "push_container"}))
CallPush == CallOf(OpsNamed({"docker_push_to_ecr"}))
CallBuild == CallOf(OpsNamed({"docker_build"}))

NoPrev == [op |-> Idle, result |-> Running, cause |-> ""]
NoInput == [f |-> "none"]

(* The files the program reads and writes: the default credentials file  *)
(* and one other path.  A file is absent (None) or has a text.            *)
DefaultCredentials == "~/.aws/credentials"
OtherFile == "other"
Paths == {DefaultCredentials, OtherFile}
NoFiles == [p \in Paths |-> None]

Fresh ==
    /\ op = Idle
    /\ plan = <<>>
    /\ ip = 1
    /\ pc = "idle"
    /\ log = <<>>
    /\ result = Running
    /\ cp = NoCp
    /\ elapsed = 0
    /\ polls = 0
    /\ deployed = [f \in Funcs |-> Image0]
    /\ pending = [f \in Funcs |-> Image0]
    /\ calls = 0
    /\ prev = NoPrev

Init ==
    /\ Fresh
    /\ fs = NoFiles
    /\ input = NoInput
    /\ status \in [Funcs -> Statuses]
    /\ faults = TRUE

(* The functions are stable or being updated, and from here on nothing   *)
(* fails on its own: every accepted update is applied, before the waiter  *)
(* gives up.                                                               *)
InitReliable ==
    /\ Fresh
    /\ fs = NoFiles
    /\ input = NoInput
    /\ status \in [Funcs -> {"Successful", "InProgress"}]
    /\ faults = FALSE

(* The update protocol against the remote functions. *)
UpdateSteps ==
    \/ lambda_function_wait_updated_before
    \/ lambda_function_update
    \/ lambda_function_wait_updated_after
    \/ update_function_names
    \/ _wait_last_update_status_before
    \/ update_function
    \/ _wait_last_update_status_after

Next ==
    \/ CallUpdate
    \/ RemoteFinish
    \/ UpdateSteps

Spec == Init /\ [][Next]_vars

(* lambda_function_update called again and again against a reliable      *)
(* remote; the client does not stop before its last call has ended.        *)
CallTwice == CallAfter(OpsNamed({"lambda_function_update"}))

NextTwice ==
    \/ CallTwice
    \/ RemoteFinish
    \/ lambda_function_wait_updated_before
    \/ lambda_function_update
    \/ lambda_function_wait_updated_after

SpecTwice == InitReliable /\ [][NextTwice]_vars /\ WF_vars(NextTwice)

(* The waits: lambda_function_wait_updated on its own, and inside the    *)
(* update operations, one call after another on the dev function.          *)
WaitOps ==
    {o \in OpsNamed({"lambda_function_wait_updated",
                     "lambda_function_update", "update_function"}) :
        \/ o.fn = "fdev" /\ o.image \in {<<>>, ImageA}
        \/ o.stage = "dev"}

CallWait == CallAfter(WaitOps)

NextWait ==
    \/ CallWait
    \/ RemoteFinish
    \/ lambda_function_wait_updated
    \/ UpdateSteps

SpecWait == Init /\ [][NextWait]_vars

(* The pipeline: main, and push_container called on its own. *)
NextPipeline ==
    \/ CallPipeline
    \/ RemoteFinish
    \/ build_container
    \/ TestHook
    \/ push_container_get_password
    \/ push_container_login
    \/ push_container_tag
    \/ push_container_push
    \/ update_function_names
    \/ _wait_last_update_status_before
    \/ update_function
    \/ _wait_last_update_status_after

SpecPipeline == Init /\ [][NextPipeline]_vars

(* docker_push_to_ecr *)
NextPush ==
    \/ CallPush
    \/ docker_push_to_ecr_get_password
    \/ docker_push_to_ecr_login
    \/ docker_push_to_ecr_tag
    \/ docker_push_to_ecr_push

SpecPush == Init /\ [][NextPush]_vars

(* The two pushes, docker_push_to_ecr and push_container, called on     *)
(* their own.                                                              *)
CallLogin == CallOf(OpsNamed({"docker_push_to_ecr", "push_container"}))

NextLogin ==
    \/ CallLogin
    \/ docker_push_to_ecr_get_password
    \/ docker_push_to_ecr_login
    \/ docker_push_to_ecr_tag
    \/ docker_push_to_ecr_push
    \/ push_container_get_password
    \/ push_container_login
    \/ push_container_tag
    \/ push_container_push

SpecLogin == Init /\ [][NextLogin]_vars

(* push_container(stage) and update_function(stage) called on their own, *)
(* with every stage.                                                       *)
CallStage == CallOf(OpsNamed({"push_container", "update_function"}))

NextStage ==
    \/ CallStage
    \/ RemoteFinish
    \/ push_container_get_password
    \/ push_container_login
    \/ push_container_tag
    \/ push_container_push
    \/ update_function_names
    \/ _wait_last_update_status_before
    \/ update_function
    \/ _wait_last_update_status_after

SpecStage == Init /\ [][NextStage]_vars

(* runcp applied on its own to a process: what it prints, what it        *)
(* returns or raises.                                                      *)
RunLines == {LineStep, LineDenied, <<"\n">>, <<"o","k">>}

(* Every line a process writes ends with a newline, but perhaps the last. *)
RunOutputs ==
    {l \in UNION {[1..n -> RunLines] : n \in 0..MaxLines} :
        \A i \in 1..(Len(l) - 1) : l[i][Len(l[i])] = "\n"}

RunProcs ==
    {Proc("cmd", l, e, k) :
        l \in RunOutputs, e \in {0, 1, 2}, k \in 0..MaxEofReads}

InitRuncp ==
    /\ Fresh
    /\ fs = NoFiles
    /\ status = [f \in Funcs |-> "Successful"]
    /\ faults = TRUE
    /\ \E proc \in RunProcs, check \in BOOLEAN :
           input = [f |-> "runcp", proc |-> proc, check |-> check]

runcp_call ==
    /\ pc = "idle"
    /\ input.f = "runcp"
    /\ LET r == runcp(input.proc, input.check)
       IN  /\ cp' = r.cp
           /\ log' = <<Join(<<>>, Echoed(input.proc))>>
           /\ result' = IF r.raised
                        THEN [kind |-> "raise", error |-> r.error,
                              value |-> None]
                        ELSE [kind |-> "return", error |-> NoError,
                              value |-> r.cp.stdout]
    /\ pc' = "done"
    /\ UNCHANGED <<op, plan, ip, elapsed, polls, Remote, calls, Frame>>

NextRuncp == runcp_call

SpecRuncp == InitRuncp /\ [][NextRuncp]_vars

(* _get_digest applied on its own to a text. *)
DigestLines ==
    {LinePushed, LineDigest, LineDigestB, LineDigestUpper, LineNoHex,
     LineDenied, LineDigestEnd, LineDigestCut}

DigestTexts ==
    {Join(<<>>, l) : l \in UNION {[1..n -> DigestLines] : n \in 0..MaxLines}}

InitDigest ==
    /\ Fresh
    /\ fs = NoFiles
    /\ status = [f \in Funcs |-> "Successful"]
    /\ faults = TRUE
    /\ \E text \in DigestTexts : input = [f |-> "_get_digest", text |-> text]

_get_digest_call ==
    /\ pc = "idle"
    /\ input.f = "_get_digest"
    /\ LET r == _get_digest(input.text)
       IN  result' = IF r.raised
                     THEN [kind |-> "raise", error |-> r.error,
                           value |-> None]
                     ELSE [kind |-> "return", error |-> NoError,
                           value |-> Some(r.value)]
    /\ pc' = "done"
    /\ UNCHANGED <<op, plan, ip, log, cp, elapsed, polls, Remote, calls,
                   Frame>>

NextDigest == _get_digest_call

SpecDigest == InitDigest /\ [][NextDigest]_vars

(* EcrRepoUri applied on its own to host/name, host/name:tag and         *)
(* host/name@digest.                                                       *)
HostPort == <<"h",".","r",".","a",".","c",":","5","0","/","p">>
HostShort == <<"a",".","b">>
HostNewline == <<"a",".","\n","b",".","c",".","d">>
HostAt == <<"u","@","h",".","r",".","a",".","c">>
UriHosts == {ecr_host, HostPort, HostShort, HostNewline, HostAt, <<>>}

UriNames == {ecr_repo_name, <<"n">>, <<"a","_","b","-","1">>,
             <<"x","\n","y">>}

UriTags ==
    {<<"t">>, <<"m","y","t","a","g">>, <<"a","/","b">>, <<"v",":","1">>,
     <<"s","h","a","2","5","6",":","d","1","3","b">>, <<"x","\n","y">>,
     <<"/">>, <<"t","@","u">>, <<>>}

UriInputs ==
    {[f |-> "EcrRepoUri", host |-> h, name |-> n, sep |-> <<>>,
      tag |-> <<>>] : h \in UriHosts, n \in UriNames}
    \cup {[f |-> "EcrRepoUri", host |-> h, name |-> n, sep |-> <<c>>,
           tag |-> t] :
             h \in UriHosts, n \in UriNames, c \in TagSep, t \in UriTags}

(* The reference string of an input: host/name, then the tag or digest. *)
UriOf(in) == in.host \o <<"/">> \o in.name \o in.sep \o in.tag

InitUri ==
    /\ Fresh
    /\ fs = NoFiles
    /\ status = [f \in Funcs |-> "Successful"]
    /\ faults = TRUE
    /\ input \in UriInputs

EcrRepoUri_call ==
    /\ pc = "idle"
    /\ input.f = "EcrRepoUri"
    /\ LET r == EcrRepoUri(UriOf(input))
       IN  result' = IF r.raised
                     THEN [kind |-> "raise", error |-> r.error,
                           value |-> None]
                     ELSE [kind |-> "return", error |-> NoError,
                           value |-> Some(r)]
    /\ pc' = "done"
    /\ UNCHANGED <<op, plan, ip, log, cp, elapsed, polls, Remote, calls,
                   Frame>>

NextUri == EcrRepoUri_call

SpecUri == InitUri /\ [][NextUri]_vars

(* The region: EcrRepoUri.region, ecr_repo_uri_to_region,                *)
(* LambdaDockerPipeline.ecr_region and LambdaDockerPipeline.__init__,      *)
(* each applied on its own.                                                *)
AwsSuffix == <<".","a","m","a","z","o","n","a","w","s",".","c","o","m">>

EndsWith(text, suffix) ==
    /\ Len(text) >= Len(suffix)
    /\ SubSeq(text, Len(text) - Len(suffix) + 1, Len(text)) = suffix

(* A function that returns a text or raises. *)
Returns(v) == [raised |-> FALSE, error |-> NoError, value |-> v]
Raises(kind) == [raised |-> TRUE, error |-> Exc(kind), value |-> <<>>]

(* An ecr_repo_uri_to_region that takes the segment before the last. *)
Mut_RegionSecondFromLast(uri) ==
    LET parts == Split(uri, "/")
        found == {i \in 1..Len(parts) : EndsWith(parts[i], AwsSuffix)}
    IN  IF found = {} THEN Raises("StopIteration")
        ELSE LET host == parts[CHOOSE i \in found : \A j \in found : i <= j]
                 segs == Split(host, ".")
             IN  Returns(segs[Len(segs) - 1])

ecr_repo_uri_to_region(uri) ==
    LET parts == Split(uri, "/")
        found == {i \in 1..Len(parts) : EndsWith(parts[i], AwsSuffix)}
    IN  IF found = {} THEN Raises("StopIteration")
        ELSE LET host == parts[CHOOSE i \in found : \A j \in found : i <= j]
                 segs == Split(host, ".")
             IN  Returns(segs[Len(segs) - 2])

ecr_region(host) ==
    LET segs == Split(host, ".")
    IN  IF Len(segs) < 3 THEN Raises("IndexError")
        ELSE Returns(segs[Len(segs) - 2])

(* LambdaDockerPipeline.__init__, as far as self.aws_region goes: given   *)
(* is the aws_region argument, None or a text; asserts tells whether the  *)
(* interpreter runs assert statements.                                     *)
LambdaDockerPipeline(erc_host, given, asserts) ==
    IF ~IsNone(given) /\ Len(Get(given)) > 0
    THEN Returns(Get(given))
    ELSE LET segs == Split(erc_host, ".")
         IN  IF Len(segs) < 3 THEN Raises("IndexError")
             ELSE LET region == segs[Len(segs) - 2]
                  IN  IF ~asserts THEN Returns(region)
                      ELSE IF Len(region) = 0 THEN Raises("IndexError")
                      ELSE IF region[Len(region)] \notin Digits
                      THEN Raises("AssertionError")
                      ELSE Returns(region)

HostPlain == <<"h",".","r",".","a",".","c">>
HostAws == <<"x">> \o AwsSuffix
HostEmptySegment == AwsSuffix
HostAwsPort == <<"e","1">> \o AwsSuffix \o <<":","5","0">>
RegionHosts ==
    {ecr_host, HostPlain, HostShort, HostAws, HostEmptySegment, HostAwsPort}

RegionGiven == {None, Some(<<>>), Some(<<"e","u","-","2">>)}

RegionInputs ==
    {[f |-> fn, host |-> h, name |-> n, sep |-> <<>>, tag |-> <<>>,
      given |-> None, asserts |-> TRUE] :
        fn \in {"ecr_repo_uri_to_region", "ecr_region"},
        h \in RegionHosts, n \in UriNames}
    \cup {[f |-> "ecr_repo_uri_to_region", host |-> h, name |-> n,
           sep |-> <<c>>, tag |-> t, given |-> None, asserts |-> TRUE] :
             h \in RegionHosts, n \in UriNames, c \in TagSep,
             t \in UriTags}
    \cup {[f |-> "LambdaDockerPipeline", host |-> h, name |-> ecr_repo_name,
           sep |-> <<>>, tag |-> <<>>, given |-> g, asserts |-> a] :
             h \in RegionHosts, g \in RegionGiven, a \in BOOLEAN}

InitRegion ==
    /\ Fresh
    /\ fs = NoFiles
    /\ status = [f \in Funcs |-> "Successful"]
    /\ faults = TRUE
    /\ input \in UriInputs \cup RegionInputs

(* The function applied on its own returns or raises. *)
Applied(r) ==
    /\ result' = IF r.raised
                 THEN [kind |-> "raise", error |-> r.error, value |-> None]
                 ELSE [kind |-> "return", error |-> NoError,
                       value |-> Some(r.value)]
    /\ pc' = "done"
    /\ UNCHANGED <<op, plan, ip, log, cp, elapsed, polls, Remote, calls,
                   Frame>>

ecr_repo_uri_to_region_call ==
    /\ pc = "idle"
    /\ input.f = "ecr_repo_uri_to_region"
    /\ Applied(ecr_repo_uri_to_region(UriOf(input)))

ecr_region_call ==
    /\ pc = "idle"
    /\ input.f = "ecr_region"
    /\ Applied(ecr_region(input.host))

LambdaDockerPipeline_call ==
    /\ pc = "idle"
    /\ input.f = "LambdaDockerPipeline"
    /\ Applied(LambdaDockerPipeline(input.host, input.given, input.asserts))

NextRegion ==
    \/ EcrRepoUri_call
    \/ ecr_repo_uri_to_region_call
    \/ ecr_region_call
    \/ LambdaDockerPipeline_call

SpecRegion == InitRegion /\ [][NextRegion]_vars

(* methods_cli: the attributes dir(obj) lists, in its order.  attr is    *)
(* the attribute's name, name its __name__ (<<>> when it has none),        *)
(* params the number of parameters signature() shows, onstack whether the  *)
(* function is among the callers of methods_cli, raises whether calling it *)
(* raises.                                                                 *)
Attr(attr, name, callable, params, onstack, raises) ==
    [attr |-> attr, name |-> name, callable |-> callable,
     params |-> params, onstack |-> onstack, raises |-> raises]

ClassName == <<"A","p","p">>

Attrs ==
    <<Attr(<<"_","_","c","l","a","s","s","_","_">>, ClassName, TRUE, 0, FALSE, FALSE),
      Attr(<<"_","h","i","d","d","e","n">>, <<"_","h","i","d","d","e","n">>, TRUE, 0, FALSE, FALSE),
      Attr(<<"a","g","a","i","n">>, <<"b","u","i","l","d","_","a","l","l">>, TRUE, 0, FALSE, FALSE),
      Attr(<<"b","u","i","l","d","_","a","l","l">>, <<"b","u","i","l","d","_","a","l","l">>, TRUE, 0, FALSE, FALSE),
      Attr(<<"d","e","p","l","o","y">>, <<"d","e","p","l","o","y">>, TRUE, 0, FALSE, TRUE),
      Attr(<<"h","o","o","k">>, <<>>, TRUE, 0, FALSE, FALSE),
      Attr(<<"m","a","i","n">>, <<"m","a","i","n">>, TRUE, 0, TRUE, FALSE),
      Attr(<<"p","u","s","h">>, <<"p","u","s","h">>, TRUE, 1, FALSE, FALSE),
      Attr(<<"v","e","r","s","i","o","n">>, <<>>, FALSE, 0, FALSE, FALSE)>>

(* The objects: the class attribute and main, and any of the others. *)
Objects ==
    {SelectSeq(Attrs, LAMBDA a : a.attr \in keep) :
        keep \in {k \cup {<<"_","_","c","l","a","s","s","_","_">>, <<"m","a","i","n">>} :
                     k \in SUBSET {Attrs[i].attr : i \in 1..Len(Attrs)}}}

(* sys.argv[1:2]: nothing, or the command typed. *)
Argv ==
    {None, Some(<<"b","u","i","l","d","-","a","l","l">>), Some(<<"b","u","i","l","d","_","a","l","l">>), Some(<<" ","d","e","p","l","o","y"," ">>),
     Some(<<"m","a","i","n">>), Some(<<"p","u","s","h">>), Some(<<"_","h","i","d","d","e","n">>), Some(<<"v","e","r","s","i","o","n">>),
     Some(<<"a","g","a","i","n">>), Some(ClassName), Some(<<"h","o","o","k">>), Some(<<>>),
     Some(<<"-","h","i","d","d","e","n">>)}

Whitespace == {" ", "\t", "\n"}

RECURSIVE strip(_)
strip(text) ==
    IF text = <<>> THEN text
    ELSE IF Head(text) \in Whitespace THEN strip(Tail(text))
    ELSE IF text[Len(text)] \in Whitespace
    THEN strip(SubSeq(text, 1, Len(text) - 1))
    ELSE text

replace(text, old, new) ==
    [i \in 1..Len(text) |-> IF text[i] = old THEN new ELSE text[i]]

(* The loop that collects the commands: the first i attributes looked at. *)
RECURSIVE Collect(_, _)
Collect(obj, i) ==
    IF i = 0 THEN [raised |-> FALSE, methods |-> <<>>]
    ELSE LET before == Collect(obj, i - 1)
             method == obj[i]
         IN  IF before.raised THEN before
             ELSE IF ~method.callable THEN before
             ELSE IF method.name = <<>>
             THEN [raised |-> TRUE, methods |-> <<>>]
             ELSE IF Head(method.name) = "_" THEN before
             ELSE IF method.name = ClassName THEN before
             ELSE IF method.onstack THEN before
             ELSE IF method.params > 0 THEN before
             ELSE [raised |-> FALSE,
                   methods |-> Append(before.methods, method)]

(* The loop that runs the command: the methods from the i-th on.  The     *)
(* outcome is the attributes invoked, in order, and how the loop ended:   *)
(* "raise" by the method's exception, "exit" by sys.exit(0), or "end".    *)
RECURSIVE Run(_, _, _, _)
Run(methods, command, exit, i) ==
    IF i > Len(methods) THEN [invoked |-> <<>>, ended |-> "end"]
    ELSE IF command # methods[i].name
    THEN Run(methods, command, exit, i + 1)
    ELSE IF methods[i].raises
    THEN [invoked |-> <<methods[i].attr>>, ended |-> "raise"]
    ELSE IF exit THEN [invoked |-> <<methods[i].attr>>, ended |-> "exit"]
    ELSE LET rest == Run(methods, command, exit, i + 1)
         IN  [invoked |-> <<methods[i].attr>> \o rest.invoked,
              ended |-> rest.ended]

SystemExit(code) == [Exc("SystemExit") EXCEPT !.returncode = code]

Usage == <<"U","s","a","g","e",":">>

(* A methods_cli that leaves the callers of methods_cli among the         *)
(* commands.                                                               *)
Mut_CallersAreCommands(obj, argv, exit) ==
    LET all == [i \in 1..Len(obj) |-> [obj[i] EXCEPT !.onstack = FALSE]]
        found == Collect(all, Len(all))
        command == IF IsNone(argv) THEN <<>>
                   ELSE replace(strip(Get(argv)), "-", "_")
        run == IF IsNone(argv) THEN [invoked |-> <<>>, ended |-> "end"]
               ELSE Run(found.methods, command, exit, 1)
    IN  IF found.raised
        THEN [invoked |-> <<>>, printed |-> None,
              error |-> Exc("AttributeError")]
        ELSE IF run.ended = "raise"
        THEN [invoked |-> run.invoked, printed |-> None,
              error |-> Exc("Exception")]
        ELSE IF run.ended = "exit"
        THEN [invoked |-> run.invoked, printed |-> None,
              error |-> SystemExit(0)]
        ELSE [invoked |-> run.invoked, printed |-> Some(Usage),
              error |-> SystemExit(2)]

methods_cli(obj, argv, exit) ==
    LET found == Collect(obj, Len(obj))
        command == IF IsNone(argv) THEN <<>>
                   ELSE replace(strip(Get(argv)), "-", "_")
        run == IF IsNone(argv) THEN [invoked |-> <<>>, ended |-> "end"]
               ELSE Run(found.methods, command, exit, 1)
    IN  IF found.raised
        THEN [invoked |-> <<>>, printed |-> None,
              error |-> Exc("AttributeError")]
        ELSE IF run.ended = "raise"
        THEN [invoked |-> run.invoked, printed |-> None,
              error |-> Exc("Exception")]
        ELSE IF run.ended = "exit"
        THEN [invoked |-> run.invoked, printed |-> None,
              error |-> SystemExit(0)]
        ELSE [invoked |-> run.invoked, printed |-> Some(Usage),
              error |-> SystemExit(2)]

InitCli ==
    /\ Fresh
    /\ fs = NoFiles
    /\ status = [f \in Funcs |-> "Successful"]
    /\ faults = TRUE
    /\ \E obj \in Objects, argv \in Argv, exit \in BOOLEAN :
           input = [f |-> "methods_cli", obj |-> obj, argv |-> argv,
                    exit |-> exit]

(* methods_cli always ends by an exception: the method's, or SystemExit. *)
methods_cli_call ==
    /\ pc = "idle"
    /\ input.f = "methods_cli"
    /\ LET r == methods_cli(input.obj, input.argv, input.exit)
       IN  /\ log' = r.invoked
           /\ result' = [kind |-> "raise", error |-> r.error,
                         value |-> r.printed]
    /\ pc' = "done"
    /\ UNCHANGED <<op, plan, ip, cp, elapsed, polls, Remote, calls, Frame>>

NextCli == methods_cli_call

SpecCli == InitCli /\ [][NextCli]_vars

(* The credentials file.                                                   *)
Indent4 == <<" "," "," "," ">>
Indent8 == Indent4 \o Indent4
SectionDefault == <<"[","d","e","f","a","u","l","t","]">>
KeyId == <<"a","w","s","_","a","c","c","e","s","s","_","k","e","y","_","i","d">>
KeySecret == <<"a","w","s","_","s","e","c","r","e","t","_","a","c","c","e","s","s","_","k","e","y">>
Equals == <<" ","="," ">>

RECURSIVE LeadingWhitespace(_)
LeadingWhitespace(line) ==
    IF line # <<>> /\ Head(line) \in {" ", "\t"}
    THEN <<Head(line)>> \o LeadingWhitespace(Tail(line))
    ELSE <<>>

RECURSIVE CommonPrefix(_, _)
CommonPrefix(a, b) ==
    IF a # <<>> /\ b # <<>> /\ Head(a) = Head(b)
    THEN <<Head(a)>> \o CommonPrefix(Tail(a), Tail(b))
    ELSE <<>>

RECURSIVE Margin(_)
(* The whitespace every line of lines starts with. *)
Margin(lines) ==
    IF Len(lines) = 1 THEN LeadingWhitespace(lines[1])
    ELSE CommonPrefix(LeadingWhitespace(lines[1]), Margin(Tail(lines)))

(* textwrap.dedent(text): lines of whitespace only become empty, and the  *)
(* whitespace the other lines share is taken off them.                    *)
dedent(text) ==
    LET lines == Split(text, "\n")
        blank(l) == LeadingWhitespace(l) = l
        full == SelectSeq(lines, LAMBDA l : ~blank(l))
        margin == IF full = <<>> THEN <<>> ELSE Margin(full)
    IN  Join(<<"\n">>,
             [i \in 1..Len(lines) |->
                 IF blank(lines[i]) THEN <<>>
                 ELSE SubSeq(lines[i], Len(margin) + 1, Len(lines[i]))])

(* The f-string of aws_create_credentials_file. *)
txt(access_key_id, secret_access_key) ==
    <<"\n">> \o Indent8 \o SectionDefault \o <<"\n">>
        \o Indent8 \o KeyId \o Equals \o access_key_id \o <<"\n">>
        \o Indent8 \o KeySecret \o Equals \o secret_access_key \o <<"\n">>
        \o Indent4

exists(fsys, path) == ~IsNone(fsys[path])

Done(r, fsys) == [r |-> r, fs |-> fsys]

(* An aws_create_credentials_file that writes whether or not the file is  *)
(* there.                                                                  *)
Mut_CreateOverwrites(fsys, access_key_id, secret_access_key, overwrite, file) ==
    LET path == IF IsNone(file) THEN DefaultCredentials ELSE Get(file)
    IN  Done(Returns(path),
             [fsys EXCEPT ![path] =
                 Some(strip(dedent(txt(access_key_id, secret_access_key))))])

aws_create_credentials_file(fsys, access_key_id, secret_access_key, overwrite, file) ==
    LET path == IF IsNone(file) THEN DefaultCredentials ELSE Get(file)
    IN  IF ~overwrite /\ exists(fsys, path)
        THEN Done(Raises("FileExistsError"), fsys)
        ELSE Done(Returns(path),
                  [fsys EXCEPT ![path] =
                      Some(strip(dedent(txt(access_key_id,
                                            secret_access_key))))])

(* The keys are None or a text.  The assert that ends the function holds  *)
(* whenever it is reached.                                                 *)
aws_create_credentials_file_on_need(fsys, access_key_id, secret_access_key) ==
    LET aws_cred_file == DefaultCredentials
    IN  IF ~exists(fsys, aws_cred_file)
        THEN IF IsNone(access_key_id) THEN Done(Raises("ValueError"), fsys)
             ELSE IF IsNone(secret_access_key)
             THEN Done(Raises("ValueError"), fsys)
             ELSE LET made == aws_create_credentials_file(
                                  fsys, Get(access_key_id),
                                  Get(secret_access_key), FALSE, None)
                  IN  IF made.r.raised THEN made
                      ELSE Done(Returns(aws_cred_file), made.fs)
        ELSE Done(Returns(aws_cred_file), fsys)

(* The keys tried, and the texts a file can have before the call. *)
CredKeys == {<<"A","K">>, <<>>, <<"s"," ","k"," ">>}
OldTexts == {<<"[","x","]","\n","a","=","1">>, <<>>}
FileStates == [Paths -> {None} \cup {Some(t) : t \in OldTexts}]

CredInputs ==
    {[f |-> "aws_create_credentials_file", id |-> Some(i), secret |-> Some(k),
      overwrite |-> o, file |-> p, fs |-> fsys] :
        i \in CredKeys, k \in CredKeys, o \in BOOLEAN,
        p \in {None, Some(OtherFile), Some(DefaultCredentials)},
        fsys \in FileStates}
    \cup
    {[f |-> "aws_create_credentials_file_on_need", id |-> i, secret |-> k,
      overwrite |-> FALSE, file |-> None, fs |-> fsys] :
        i \in {None} \cup {Some(t) : t \in CredKeys},
        k \in {None} \cup {Some(t) : t \in CredKeys},
        fsys \in FileStates}

InitCred ==
    /\ Fresh
    /\ status = [f \in Funcs |-> "Successful"]
    /\ faults = TRUE
    /\ input \in CredInputs
    /\ fs = input.fs

Written(done) ==
    /\ fs' = done.fs
    /\ result' = IF done.r.raised
                 THEN [kind |-> "raise", error |-> done.r.error,
                       value |-> None]
                 ELSE [kind |-> "return", error |-> NoError,
                       value |-> Some(done.r.value)]
    /\ pc' = "done"
    /\ UNCHANGED <<op, plan, ip, log, cp, elapsed, polls, Remote, calls,
                   faults, prev, input>>

aws_create_credentials_file_call ==
    /\ pc = "idle"
    /\ input.f = "aws_create_credentials_file"
    /\ Written(aws_create_credentials_file(
                   fs, Get(input.id), Get(input.secret), input.overwrite,
                   input.file))

aws_create_credentials_file_on_need_call ==
    /\ pc = "idle"
    /\ input.f = "aws_create_credentials_file_on_need"
    /\ Written(aws_create_credentials_file_on_need(
                   fs, input.id, input.secret))

NextCred ==
    \/ aws_create_credentials_file_call
    \/ aws_create_credentials_file_on_need_call

SpecCred == InitCred /\ [][NextCred]_vars

(* docker_build *)
NextBuild ==
    \/ CallBuild
    \/ docker_build

SpecBuild == Init /\ [][NextBuild]_vars

----------------------------------------------------------------------------
(* Properties of the update protocol. *)

UpdateProcs == {"lambda_function_update", "update_function"}

IsWait(e) == e.cmd = "wait function-updated"
IsUpdate(e) == e.cmd = "update-function-code"

(* The log entries of step k of the running operation. *)
Seg(k) == SelectSeq(log, LAMBDA e : e.step = k)

(* Step k has returned normally. *)
Returned(k) == ip > k \/ (ip = k /\ result.kind = "return")

(* The function step k is about. *)
FuncOf(k) ==
    IF plan[k].proc = "lambda_function_update" THEN op.fn
    ELSE IF plan[k].stage = "dev" THEN "fdev" ELSE "fprod"

(* C1: in every call of lambda_function_update or update_function, the    *)
(* update command is issued only after a wait for the same function,      *)
(* issued earlier in the call, has exited 0; the call returns only after  *)
(* a second wait, issued after the update, has exited 0, so a successful  *)
(* call issued exactly <<wait, update, wait>>; and a failed command is    *)
(* the last command of the call.                                           *)
C1_UpdateAwait ==
    op.name # "idle" =>
        \A k \in 1..Len(plan) :
            plan[k].proc \in UpdateProcs =>
                LET seg == Seg(k)
                    f == FuncOf(k)
                IN  /\ \A i \in 1..Len(seg) :
                           /\ seg[i].fn = f
                           /\ IsWait(seg[i]) \/ IsUpdate(seg[i])
                           /\ IsUpdate(seg[i]) =>
                                  \E j \in 1..(i - 1) :
                                      /\ IsWait(seg[j])
                                      /\ seg[j].fn = seg[i].fn
                                      /\ seg[j].exit = 0
                           /\ i < Len(seg) => seg[i].exit = 0
                    /\ Returned(k) =>
                           /\ Len(seg) = 3
                           /\ IsWait(seg[1]) /\ IsUpdate(seg[2])
                           /\ IsWait(seg[3])
                           /\ \A i \in 1..3 : seg[i].exit = 0
                    /\ Cardinality({i \in 1..Len(seg) : IsUpdate(seg[i])})
                           <= 1

(* A call on a function that was already stable on entry (the first wait  *)
(* made one status check) has returned.                                    *)
C1_Witness ==
    /\ op.name = "lambda_function_update"
    /\ result.kind = "return"
    /\ Len(log) = 3
    /\ ~log[1].waited
    /\ log[1].exit = 0

(* C2: update-function-code is never issued while the function's status   *)
(* is InProgress, over any sequence of calls of the client.               *)
C2_NoUpdateWhileUpdating ==
    \A i \in 1..Len(log) :
        IsUpdate(log[i]) => log[i].before # "InProgress"

(* The second call's first wait had to wait for an update in flight, and  *)
(* its update was then accepted.                                           *)
C2_Witness ==
    /\ calls = 2
    /\ Len(log) >= 2
    /\ IsWait(log[1]) /\ log[1].waited /\ log[1].exit = 0
    /\ IsUpdate(log[2]) /\ log[2].exit = 0

----------------------------------------------------------------------------
(* Properties of the pipeline stages. *)

(* The order of the steps of `update dev` and `update prod`. *)
StageOrder(stage) ==
    LET dev == << <<"build", "-">>, <<"test", "docker">>, <<"push", "dev">>,
                  <<"update", "dev">>, <<"test", "dev">> >>
    IN  IF stage = "dev" THEN dev
        ELSE dev \o << <<"push", "prod">>, <<"update", "prod">>,
                       <<"test", "prod">> >>

KindOf(by) ==
    IF by = "build_container" THEN "build"
    ELSE IF by = "push_container" THEN "push"
    ELSE IF by = "update_function" THEN "update"
    ELSE IF by \in Hooks THEN "test"
    ELSE by

Cmds(seg) == [i \in 1..Len(seg) |-> seg[i].cmd]

(* Step k ran all its commands and succeeded. *)
StepOK(k) ==
    LET seg == Seg(k)
        kind == IF Len(seg) = 0 THEN "-" ELSE KindOf(seg[1].by)
    IN  /\ Len(seg) > 0
        /\ kind \in {"build", "test"} => Len(seg) = 1 /\ seg[1].exit = 0
        /\ kind = "push" =>
               /\ Cmds(seg) = <<"get-login-password", "docker login",
                                "docker tag", "docker push">>
               /\ \A i \in 2..4 : seg[i].exit = 0
        /\ kind = "update" =>
               /\ Cmds(seg) = <<"wait function-updated",
                                "update-function-code",
                                "wait function-updated">>
               /\ \A i \in 1..3 : seg[i].exit = 0

(* C3: the steps of `update dev` and `update prod` run in the fixed order, *)
(* each only after every earlier step has succeeded; the run returns only  *)
(* when every step has succeeded; the prod function is updated only after  *)
(* the dev test hook has returned.                                         *)
C3_StageOrder ==
    (op.name = "main" /\ op.command = "update") =>
        LET exp == StageOrder(op.stage)
        IN  /\ \A i \in 1..Len(log) :
                   /\ log[i].step \in 1..Len(exp)
                   /\ <<KindOf(log[i].by), log[i].stage>> = exp[log[i].step]
                   /\ \A j \in 1..(i - 1) : log[j].step <= log[i].step
                   /\ \A k \in 1..(log[i].step - 1) : StepOK(k)
                   /\ (IsUpdate(log[i]) /\ log[i].fn = "fprod") =>
                          \E j \in 1..(i - 1) :
                              log[j].cmd = "_test_dev" /\ log[j].exit = 0
            /\ result.kind = "return" => \A k \in 1..Len(exp) : StepOK(k)
            /\ result.kind = "raise" =>
                   Len(log) > 0 /\ ~StepOK(log[Len(log)].step)

(* `update prod` has run all its eight steps and returned. *)
C3_Witness ==
    /\ op.name = "main" /\ op.command = "update" /\ op.stage = "prod"
    /\ result.kind = "return"
    /\ Len(log) = 18

----------------------------------------------------------------------------
(* Properties of docker_build. *)

HasMarker(c) == ~IsNone(c.stdout) /\ Contains(Get(c.stdout), tmr)

BuildEnded == op.name = "docker_build" /\ pc = "done"

(* C4: docker_build does not give up on a rate-limited build while the    *)
(* time budget lasts: it never ends by raising when its last invocation   *)
(* failed with the marker less than tmr_timeout - 1 seconds after the     *)
(* start.                                                                  *)
C4_RetriesRateLimited ==
    (BuildEnded /\ cp.returncode # 0 /\ HasMarker(cp)
         /\ elapsed < op.tmr_timeout - 1)
        => result.kind # "raise"

(* C5: in both cases without retry, docker_build raises                   *)
(* CalledProcessError with the exit code and the captured text of its     *)
(* last invocation.                                                        *)
C5_BuildFailure ==
    (BuildEnded /\ cp.returncode # 0
         /\ (~HasMarker(cp) \/ elapsed >= op.tmr_timeout - 1))
        => /\ result.kind = "raise"
           /\ result.error.exc = "CalledProcessError"
           /\ result.error.returncode = cp.returncode
           /\ result.error.output = cp.stdout

(* C6: for every CompletedProcess runcp returns for a build, the           *)
(* classifier is true iff the exit code is non-zero and the captured text  *)
(* contains the marker.                                                    *)
C6_Classifier ==
    cp.args = "docker build" =>
        _is_docker_build_too_many_requests(cp) =
            (IF cp.returncode # 0 /\ HasMarker(cp) THEN "True" ELSE "False")

----------------------------------------------------------------------------
(* Properties of docker_push_to_ecr. *)

PushOrder ==
    <<"get-login-password", "docker login", "docker tag", "docker push",
      "_get_digest">>

(* C7: the steps of docker_push_to_ecr are started in order, each only    *)
(* when every earlier step has ended successfully.                         *)
C7_PushStepsInOrder ==
    op.name = "docker_push_to_ecr" =>
        \A i \in 1..Len(log) :
            /\ i <= Len(PushOrder) /\ log[i].cmd = PushOrder[i]
            /\ \A j \in 1..(i - 1) : log[j].done => log[j].exit = 0

(* d is the digest that `digest: (sha256:[0-9a-z]+)` finds first in text. *)
FirstDigest(d, text) ==
    LET at(i) == /\ i + 7 + Len(d) <= Len(text)
                 /\ SubSeq(text, i, i + 7 + Len(d))
                        = SubSeq(DigestPrefix, 1, 8) \o d
        some(i) == /\ i + Len(DigestPrefix) <= Len(text)
                   /\ SubSeq(text, i, i + Len(DigestPrefix) - 1)
                          = DigestPrefix
                   /\ text[i + Len(DigestPrefix)] \in DigestChars
    IN  /\ Len(d) > 7
        /\ SubSeq(d, 1, 7) = SubSeq(DigestPrefix, 9, 15)
        /\ \A j \in 8..Len(d) : d[j] \in DigestChars
        /\ \E i \in 1..Len(text) :
               /\ at(i)
               /\ \A j \in 1..(i - 1) : ~some(j)
               /\ i + 8 + Len(d) <= Len(text)
                      => text[i + 8 + Len(d)] \notin DigestChars

HasDigest(text) ==
    \E i \in 1..(Len(text) - Len(DigestPrefix)) :
        /\ SubSeq(text, i, i + Len(DigestPrefix) - 1) = DigestPrefix
        /\ text[i + Len(DigestPrefix)] \in DigestChars

PushEnded ==
    op.name = "docker_push_to_ecr" /\ pc = "done" /\ cp.args = "docker push"

(* C8: a push that exits 0 with no digest in its output makes              *)
(* docker_push_to_ecr raise ValueError and return nothing, and a push     *)
(* that exits non-zero makes it raise an error of another kind.            *)
C8_DigestNotFound ==
    PushEnded =>
        /\ (cp.returncode = 0 /\ ~HasDigest(Get(cp.stdout))) =>
               /\ result.kind = "raise"
               /\ result.error.exc = "ValueError"
               /\ IsNone(result.value)
        /\ cp.returncode # 0 =>
               /\ result.kind = "raise"
               /\ result.error.exc # "ValueError"

C8_Witness ==
    /\ PushEnded
    /\ cp.returncode = 0
    /\ ~HasDigest(Get(cp.stdout))
    /\ result.kind = "raise"

(* C9: a push that exits non-zero makes docker_push_to_ecr raise an error *)
(* carrying the exit code and the captured output of the push, and no     *)
(* digest is extracted.                                                    *)
C9_PushFailure ==
    (PushEnded /\ cp.returncode # 0) =>
        /\ result.kind = "raise"
        /\ result.error.exc = "CalledProcessError"
        /\ result.error.returncode = cp.returncode
        /\ result.error.output = cp.stdout
        /\ \A i \in 1..Len(log) : log[i].cmd # "_get_digest"

(* C10: on success docker_push_to_ecr returns host/repository@digest, with *)
(* the host and repository of the input reference and the digest of this   *)
(* push's output, and parsing it gives them back.                          *)
C10_ReturnedReference ==
    (op.name = "docker_push_to_ecr" /\ result.kind = "return") =>
        LET v == Get(result.value)
            in == EcrRepoUri(op.uri)
            out == EcrRepoUri(v)
        IN  /\ ~IsNone(result.value)
            /\ \E n \in 1..Len(v) :
                   /\ v[n] = "@"
                   /\ SubSeq(v, 1, n - 1) = in.host \o <<"/">> \o in.name
                   /\ FirstDigest(SubSeq(v, n + 1, Len(v)), Get(cp.stdout))
                   /\ out.tag = Some(SubSeq(v, n + 1, Len(v)))
            /\ ~out.raised
            /\ out.host = in.host
            /\ out.name = in.name
            /\ op.uri \in {UriTagged, UriBare} =>
                   SubSeq(v, 1, Len(UriBare) + 1) = UriBare \o <<"@">>

(* A tagged reference was pushed and the digest reference returned. *)
C10_Witness ==
    /\ op.name = "docker_push_to_ecr"
    /\ result.kind = "return"
    /\ op.uri = UriTagged

----------------------------------------------------------------------------
(* C11: two lambda_function_update calls in immediate succession against  *)
(* the same function, with a remote that completes each accepted update,  *)
(* both succeed: no call raises; the second call issues its update only   *)
(* when the first call's image is deployed and the function is stable;    *)
(* when the second call has returned the function is stable on the second *)
(* call's image (the same image, or B after A); and the calls do end.     *)
SameFunctionAgain ==
    /\ op.name = "lambda_function_update"
    /\ prev.op.name = "lambda_function_update"
    /\ prev.op.fn = op.fn

TwoUpdates ==
    /\ result.kind # "raise"
    /\ SameFunctionAgain =>
          /\ prev.result.kind = "return"
          /\ pc = "update" =>
                /\ status[op.fn] = "Successful"
                /\ deployed[op.fn] = prev.op.image
          /\ \A i \in 1..Len(log) :
                IsUpdate(log[i]) => log[i].before = "Successful"
          /\ pc = "done" =>
                /\ result.kind = "return"
                /\ status[op.fn] = "Successful"
                /\ deployed[op.fn] = op.image

----------------------------------------------------------------------------
(* The waits. *)

(* The result of an operation that a failed status wait ended. *)
WaitFailed(res) ==
    /\ res.kind = "raise"
    /\ res.error.cmd = "wait function-updated"
    /\ res.error.returncode = 255

(* The waiter checks at most 60 times; lambda_function_wait_updated runs  *)
(* it once and returns None exactly when it exits 0, which it does only   *)
(* on a Successful status and always does on one unless the command       *)
(* itself fails; it raises on a Failed status and on an update still in   *)
(* progress at the ceiling; inside an update operation a failed wait is   *)
(* the last command, and the operation raises.                            *)
WaitContract ==
    /\ polls < WaitMaxAttempts
    /\ (op.name = "lambda_function_wait_updated" /\ pc = "done") =>
          /\ Len(log) = 1
          /\ IsWait(log[1])
          /\ log[1].fn = op.fn
          /\ result.kind = "return" <=> log[1].exit = 0
          /\ result.kind = "return" => result.value = None
          /\ log[1].exit = 0 =>
                log[1].before = "Successful" /\ status[op.fn] = "Successful"
          /\ log[1].before = "Successful" => log[1].exit \in {0, 254}
          /\ log[1].before = "Failed" => log[1].exit \in {255, 254}
          /\ log[1].before = "InProgress" =>
                /\ log[1].exit \in {255, 254}
                /\ log[1].exit = 255 => log[1].waited
    /\ \A i \in 1..Len(log) :
          (IsWait(log[i]) /\ log[i].exit # 0) =>
              /\ i = Len(log)
              /\ pc = "done"
              /\ result.kind = "raise"

(* Two waits in a row that failed for different reasons (the ceiling, a   *)
(* Failed status) raised errors that differ.                               *)
Distinguishable ==
    (/\ pc = "done"
     /\ WaitFailed(result)
     /\ WaitFailed(prev.result)
     /\ prev.cause # log[Len(log)].before) =>
        result.error # prev.result.error

(* A failed wait raises CalledProcessError with the waiter's exit code   *)
(* and command, whatever made it fail.                                     *)
OneErrorKind ==
    (pc = "done" /\ Len(log) > 0 /\ IsWait(log[Len(log)])
     /\ log[Len(log)].exit # 0) =>
        /\ result.kind = "raise"
        /\ result.error.exc = "CalledProcessError"
        /\ result.error.returncode = log[Len(log)].exit
        /\ result.error.cmd = "wait function-updated"
        /\ result.error.stderr = None

(* C12, as claimed: lambda_function_wait_updated checks the status at     *)
(* most 60 times, returns silently once it is Successful, fails when the  *)
(* ceiling is exhausted and fails when the status is Failed, with errors  *)
(* that tell the two apart; the update operation does not retry it.       *)
C12_WaitErrorsDiffer == WaitContract /\ Distinguishable

(* C12, amended: the same, but the two failures raise one kind of error,  *)
(* CalledProcessError with exit code 255 and the waiter's command.        *)
C12_WaitContract == WaitContract /\ OneErrorKind

C12_Witness ==
    /\ op.name = "lambda_function_wait_updated"
    /\ pc = "done"
    /\ WaitFailed(result)
    /\ log[1].before = "Failed"
    /\ WaitFailed(prev.result)
    /\ prev.cause = "InProgress"

----------------------------------------------------------------------------
(* C13: no failure of an external command is swallowed: a command of the  *)
(* running operation that has exited non-zero has ended the operation     *)
(* with an error, unless it is a build that docker_build is retrying.     *)
ExternalCommands ==
    {"get-login-password", "docker login", "docker tag", "docker push",
     "docker build", "wait function-updated", "update-function-code"}

C13_NoFailureSwallowed ==
    \A i \in 1..Len(log) :
        (/\ log[i].cmd \in ExternalCommands
         /\ log[i].done
         /\ log[i].exit # 0
         /\ ~(log[i].by = "docker_build" /\ pc # "done")) =>
            /\ pc = "done"
            /\ result.kind = "raise"

----------------------------------------------------------------------------
(* C14: the build stage of the pipeline builds through the retry loop: a  *)
(* stage that a rate-limited build has failed (the build's output holds   *)
(* the marker) had retried the build; a build that fails at once with     *)
(* the marker, inside the time budget, does not fail the stage.            *)
StageBuilds == SelectSeq(log, LAMBDA e : e.by = "build_container")

C14_BuildStageRetries ==
    (/\ pc = "done"
     /\ result.kind = "raise"
     /\ cur.proc = "build_container"
     /\ Len(log) > 0
     /\ log[Len(log)].exit # 0
     /\ Contains(log[Len(log)].out, tmr)) =>
        Len(StageBuilds) > 1

----------------------------------------------------------------------------
(* C15: in docker_push_to_ecr and push_container the registry token goes  *)
(* from get-login-password to docker login through the pipe and nowhere   *)
(* else: no command has it among its arguments, docker login reads on its *)
(* stdin exactly what get-login-password wrote, no other command is given *)
(* a stdin, the commands run are the four of the push (none writes the    *)
(* token to a file), and the value returned does not hold it.              *)
PushCommands ==
    {"get-login-password", "docker login", "docker tag", "docker push"}

C15_TokenOnlyThroughStdin ==
    /\ \A i \in 1..Len(log) :
          /\ ~Contains(log[i].uri, Token)
          /\ log[i].cmd \in PushCommands \cup {"_get_digest"}
          /\ log[i].out # <<>> => log[i].cmd = "get-login-password"
          /\ log[i].stdin # <<>> => log[i].cmd = "docker login"
          /\ log[i].cmd = "docker login" =>
                /\ i > 1
                /\ log[i - 1].cmd = "get-login-password"
                /\ log[i].stdin = log[i - 1].out
    /\ ~IsNone(result.value) => ~Contains(Get(result.value), Token)

C15_Witness ==
    /\ op.name = "docker_push_to_ecr"
    /\ pc = "done"
    /\ result.kind = "return"
    /\ log[1].out = Token
    /\ log[2].stdin = Token

----------------------------------------------------------------------------
(* C16: for the stages local and docker, ecr_image_uri and                *)
(* lambda_func_name raise ValueError, and push_container(stage) and       *)
(* update_function(stage) end with that error before running any command. *)
NoSuchStage ==
    /\ op.name \in {"push_container", "update_function"}
    /\ op.stage \in {"local", "docker"}

C16_NoCommandForOtherStages ==
    NoSuchStage =>
        /\ IsNone(ecr_image_uri(op.stage))
        /\ IsNone(lambda_func_name(op.stage))
        /\ log = <<>>
        /\ pc \in {"start", "done"}
        /\ pc = "done" =>
              /\ result.kind = "raise"
              /\ result.error.exc = "ValueError"

C16_Witness ==
    /\ NoSuchStage
    /\ op.name = "push_container"
    /\ pc = "done"
    /\ result.kind = "raise"

----------------------------------------------------------------------------
(* Properties of runcp. *)

RuncpEnded == input.f = "runcp" /\ pc = "done"

(* C17: runcp with check=True (check_call_rt) raises CalledProcessError   *)
(* with the exit code, the arguments and the captured text (a text that   *)
(* holds every line written) exactly when the exit code is non-zero;      *)
(* with check=False it never raises and returns a result with the exit    *)
(* code as returncode and the arguments as args.                           *)
C17_CheckedAndUnchecked ==
    RuncpEnded =>
        LET proc == input.proc IN
        /\ result.kind = "raise" <=> (input.check /\ proc.exit # 0)
        /\ result.kind = "raise" =>
              /\ result.error.exc = "CalledProcessError"
              /\ result.error.returncode = proc.exit
              /\ result.error.cmd = proc.cmd
              /\ ~IsNone(result.error.output)
              /\ \A i \in 1..Len(proc.lines) :
                    Contains(Get(result.error.output), proc.lines[i])
        /\ result.kind = "return" =>
              /\ cp.returncode = proc.exit
              /\ cp.args = proc.cmd

C17_Witness ==
    /\ RuncpEnded
    /\ input.check
    /\ input.proc.exit = 2
    /\ Len(input.proc.lines) = 2
    /\ result.kind = "raise"

(* C18: the text runcp captured is the concatenation of the lines the     *)
(* process wrote, which is also what runcp printed: nothing lost,         *)
(* duplicated, reordered or added.                                         *)
Captured ==
    IF result.kind = "raise" THEN result.error.output ELSE cp.stdout

C18_CapturedIsEchoed ==
    RuncpEnded =>
        /\ log[1] = Join(<<>>, input.proc.lines)
        /\ Captured = Some(log[1])

----------------------------------------------------------------------------
(* C19: for a text with a match of `digest: (sha256:[0-9a-z]+)`,          *)
(* _get_digest returns the sha256:... token of the first match, cut at    *)
(* the first character outside [0-9a-z]; for a text without a match it    *)
(* raises ValueError.                                                      *)
DigestEnded == input.f = "_get_digest" /\ pc = "done"

C19_FirstDigest ==
    DigestEnded =>
        IF HasDigest(input.text)
        THEN /\ result.kind = "return"
             /\ FirstDigest(Get(result.value), input.text)
        ELSE /\ result.kind = "raise"
             /\ result.error.exc = "ValueError"

C19_Witness ==
    /\ DigestEnded
    /\ input.text = LineDigestCut \o LineDigest
    /\ result.value = Some(<<"s","h","a","2","5","6",":","a","b","1">>)

----------------------------------------------------------------------------
(* Properties of EcrRepoUri. *)

UriEnded == input.f = "EcrRepoUri" /\ pc = "done"

(* Parsing gave back the host, the name and the tag or digest the         *)
(* reference was made of, and uri_without_tag is host/name.                *)
ParsedBack ==
    /\ result.kind = "return"
    /\ LET r == Get(result.value)
       IN  /\ r.host = input.host
           /\ r.name = input.name
           /\ r.tag = (IF input.sep = <<>> THEN None ELSE Some(input.tag))
           /\ uri_without_tag(r) = input.host \o <<"/">> \o input.name

(* C20, as claimed: for every host H, every name N without '/', ':' or    *)
(* '@' and every tag T or digest D, parsing H/N, H/N:T and H/N@D gives   *)
(* host H, name N and tag None, T and D, and uri_without_tag is H/N.       *)
C20_ParseInvertsFormat == UriEnded => ParsedBack

(* C20, amended: the same for every host of at least three dot-separated  *)
(* segments without a newline, and every tag or digest without '/' and    *)
(* without a newline.                                                      *)
UriWellFormed ==
    /\ Len(Split(input.host, ".")) >= 3
    /\ "\n" \notin Chars(input.host)
    /\ Chars(input.tag) \cap {"/", "\n"} = {}
    /\ input.sep # <<>> => Len(input.tag) > 0

C20_ParseInvertsWellFormed == (UriEnded /\ UriWellFormed) => ParsedBack

C20_Witness ==
    /\ UriEnded
    /\ input.host = HostPort
    /\ input.sep = <<"@">>
    /\ input.tag = <<"s","h","a","2","5","6",":","d","1","3","b">>
    /\ result.kind = "return"
    /\ Get(result.value).host = HostPort

----------------------------------------------------------------------------
(* Properties of the region. *)

NoDot(text) == "." \notin Chars(text)

(* r is the third-from-last dot-separated segment of host: host is        *)
(* [before.]r.x.y with no dot in r, x and y.                               *)
IsThirdFromLast(r, host) ==
    /\ NoDot(r)
    /\ \E i, j \in 1..Len(host) :
          /\ i < j
          /\ host[i] = "."
          /\ host[j] = "."
          /\ NoDot(SubSeq(host, i + 1, j - 1))
          /\ NoDot(SubSeq(host, j + 1, Len(host)))
          /\ i - Len(r) >= 1
          /\ SubSeq(host, i - Len(r), i - 1) = r
          /\ i - Len(r) = 1 \/ host[i - Len(r) - 1] = "."

RegionFuncs ==
    {"ecr_repo_uri_to_region", "ecr_region", "LambdaDockerPipeline"}

RegionEnded == input.f \in RegionFuncs /\ pc = "done"

ThreeSegments == Len(Split(input.host, ".")) >= 3

Explicit == input.f = "LambdaDockerPipeline" /\ ~IsNone(input.given)

(* The region is the one the claim gives: the region passed, or the       *)
(* third-from-last segment of the host.                                    *)
RegionDerived ==
    /\ result.kind = "return"
    /\ IF Explicit THEN result.value = input.given
       ELSE IsThirdFromLast(Get(result.value), input.host)

(* An EcrRepoUri that was constructed has the third-from-last segment of  *)
(* its host as region.                                                     *)
ParsedRegion ==
    (UriEnded /\ result.kind = "return") =>
        IsThirdFromLast(Get(result.value).region, Get(result.value).host)

(* C21, as claimed: for every host of at least three dot-segments the     *)
(* region of EcrRepoUri, ecr_repo_uri_to_region, ecr_region and, with no  *)
(* region passed, of the pipeline is the third-from-last segment of the   *)
(* host; a region passed to the pipeline is used unchanged.                *)
C21_RegionIsThirdFromLast ==
    /\ ParsedRegion
    /\ (RegionEnded /\ (ThreeSegments \/ Explicit)) => RegionDerived

(* C21, amended: the same, for ecr_repo_uri_to_region only when the host  *)
(* ends in .amazonaws.com, for the pipeline with no region passed only    *)
(* when that segment ends in a digit, and only a non-empty region passed  *)
(* is used unchanged (an empty one counts as none).                        *)
RegionCovered ==
    IF input.f = "ecr_repo_uri_to_region"
    THEN EndsWith(input.host, AwsSuffix)
    ELSE IF input.f = "ecr_region" THEN ThreeSegments
    ELSE IF Explicit /\ Len(Get(input.given)) > 0 THEN TRUE
    ELSE /\ ThreeSegments
         /\ \E r \in {ecr_region(input.host).value} :
                Len(r) > 0 /\ r[Len(r)] \in Digits

RegionAmended ==
    /\ result.kind = "return"
    /\ IF Explicit /\ Len(Get(input.given)) > 0
       THEN result.value = input.given
       ELSE IsThirdFromLast(Get(result.value), input.host)

C21_RegionOfRegistryHost ==
    /\ ParsedRegion
    /\ (RegionEnded /\ RegionCovered) => RegionAmended

C21_Witness ==
    /\ RegionEnded
    /\ input.f = "ecr_repo_uri_to_region"
    /\ input.host = ecr_host
    /\ input.sep = <<":">>
    /\ result.value = Some(<<"u","s","-","e","a","s","t","-","1">>)

----------------------------------------------------------------------------
(* The whole text matches (.+)/([^@:]+)(?:[@:](.+))?: a host of one or    *)
(* more characters other than newline, a '/', then either a name without  *)
(* '@' and ':' up to the end, or such a name, one of '@' and ':', and a   *)
(* tag of one or more characters other than newline up to the end.        *)
FullMatch(uri) ==
    \E i \in 2..(Len(uri) - 1) :
        /\ uri[i] = "/"
        /\ "\n" \notin Chars(SubSeq(uri, 1, i - 1))
        /\ \/ Chars(SubSeq(uri, i + 1, Len(uri))) \cap TagSep = {}
           \/ \E k \in (i + 2)..(Len(uri) - 1) :
                  /\ uri[k] \in TagSep
                  /\ Chars(SubSeq(uri, i + 1, k - 1)) \cap TagSep = {}
                  /\ "\n" \notin Chars(SubSeq(uri, k + 1, Len(uri)))

(* C22: EcrRepoUri raises ValueError for every text that does not match   *)
(* the pattern as a whole, a reference ending in a bare ':' or '@'        *)
(* included, and constructs an object only for a text that does.          *)
C22_ValueErrorUnlessFullMatch ==
    (UriEnded /\ ~FullMatch(UriOf(input))) =>
        /\ result.kind = "raise"
        /\ result.error.exc = "ValueError"

(* ---- C23 ---- *)
CliEnded == pc = "done" /\ input.f = "methods_cli" /\ input.exit

NamedBy(obj, attr) ==
    obj[CHOOSE i \in 1..Len(obj) : obj[i].attr = attr]
PublicZeroArgument(obj) ==
    {obj[i] : i \in {j \in 1..Len(obj) :
        /\ obj[j].callable
        /\ obj[j].name # <<>>
        /\ Head(obj[j].attr) # "_"
        /\ Head(obj[j].name) # "_"
        /\ obj[j].params = 0}}
HyphensReplaced == replace(Get(input.argv), "-", "_")
UsageAndExit2 ==
    /\ log = <<>>
    /\ result.value = Some(Usage)
    /\ result.error = SystemExit(2)

AllNamed(obj) ==
    \A i \in 1..Len(obj) : obj[i].callable => obj[i].name # <<>>
Stripped == replace(strip(Get(input.argv)), "-", "_")
NotCalling(obj) ==
    {m \in PublicZeroArgument(obj) : ~m.onstack /\ m.name # ClassName}

CredEnded ==
    pc = "done" /\ input.f \in {"aws_create_credentials_file",
                                "aws_create_credentials_file_on_need"}
Target == IF IsNone(input.file) THEN DefaultCredentials ELSE Get(input.file)
StartsWith(text, prefix) ==
    Len(text) >= Len(prefix) /\ SubSeq(text, 1, Len(prefix)) = prefix
(* The value an INI reader gives the key of a line `key = value`. *)
HasValue(line, key, value) ==
    /\ StartsWith(line, key)
    /\ LET rest == strip(SubSeq(line, Len(key) + 1, Len(line)))
       IN  /\ rest # <<>>
           /\ Head(rest) = "="
           /\ strip(Tail(rest)) = strip(value)
IsDefaultSection(text, id, secret) ==
    LET lines == Split(text, "\n")
    IN  /\ Len(lines) = 3
        /\ lines[1] = SectionDefault
        /\ HasValue(lines[2], KeyId, id)
        /\ HasValue(lines[3], KeySecret, secret)
Untouched(paths) == \A p \in paths : fs[p] = input.fs[p]

(* C24: aws_create_credentials_file raises FileExistsError and leaves the *)
(* file as it is when the file exists and overwrite is false, and else    *)
(* writes the [default] section with both keys; ..._on_need leaves an     *)
(* existing file as it is, and with the file absent and a key None raises *)
(* ValueError and creates nothing.                                         *)
C24_RefusesToOverwrite ==
    CredEnded =>
        IF input.f = "aws_create_credentials_file"
        THEN IF exists(input.fs, Target) /\ ~input.overwrite
             THEN /\ result.kind = "raise"
                  /\ result.error = Exc("FileExistsError")
                  /\ Untouched(Paths)
             ELSE /\ result.kind = "return"
                  /\ exists(fs, Target)
                  /\ IsDefaultSection(Get(fs[Target]), Get(input.id),
                                      Get(input.secret))
                  /\ Untouched(Paths \ {Target})
        ELSE /\ exists(input.fs, DefaultCredentials) => Untouched(Paths)
             /\ (/\ ~exists(input.fs, DefaultCredentials)
                 /\ IsNone(input.id) \/ IsNone(input.secret))
                    => /\ result.kind = "raise"
                       /\ result.error = Exc("ValueError")
                       /\ Untouched(Paths)

(* A file that was there is still what it was after a refused creation. *)
C24_Witness ==
    /\ CredEnded
    /\ input.f = "aws_create_credentials_file"
    /\ ~input.overwrite
    /\ input.fs[Target] = Some(<<"[","x","]","\n","a","=","1">>)
    /\ fs[Target] = Some(<<"[","x","]","\n","a","=","1">>)
    /\ result.error = Exc("FileExistsError")

(* ---- C25 ---- *)
Building == op.name = "docker_build"
(* A turn of the loop that ends by `continue`. *)
Retry ==
    /\ Building /\ pc = "start" /\ pc' = "start"
    /\ Len(log') = Len(log) + 1
(* The most builds a call with this timeout can run: every retry comes   *)
(* after a sleep of a second and starts before tmr_timeout - 1.           *)
MostBuilds(tmr_timeout) == IF tmr_timeout <= 1 THEN 1 ELSE tmr_timeout

NonDeploying == op.name = "main" /\ op.command \in {"build", "test"}
DeployCommands ==
    {"get-login-password", "docker login", "docker tag", "docker push",
     "wait function-updated", "update-function-code"}
HookOf(stage) ==
    IF stage = "dev" THEN "_test_dev"
    ELSE IF stage = "prod" THEN "_test_prod"
    ELSE IF stage = "docker" THEN "_test_docker"
    ELSE "_test_local"
Allowed ==
    IF op.command = "build" THEN <<"docker build", "_test_docker">>
    ELSE <<HookOf(op.stage)>>
IsPrefix(a, b) == Len(a) <= Len(b) /\ a = SubSeq(b, 1, Len(a))

(* C26: `build` runs only docker build and then the docker test hook, and *)
(* `test <stage>` only the hook of that stage: neither runs a login, tag, *)
(* push, wait or update-function-code command, however the build or the   *)
(* hook ends; a command that ended without an error ran all of its steps.  *)
C26_NonDeployingCommands ==
    NonDeploying =>
        /\ IsPrefix(Cmds(log), Allowed)
        /\ \A i \in 1..Len(log) : log[i].cmd \notin DeployCommands
        /\ (pc = "done" /\ result.kind = "return") => Cmds(log) = Allowed
        /\ (pc = "done" /\ result.kind = "raise") =>
               Len(log) > 0 /\ log[Len(log)].exit # 0

(* A build whose test hook raised ended there. *)
C26_Witness ==
    /\ NonDeploying /\ op.command = "build"
    /\ pc = "done"
    /\ result.kind = "raise"
    /\ Cmds(log) = <<"docker build", "_test_docker">>
====
